---- MODULE Spec2Model ----
(***************************************************************************)
(* Style attribute codec of the PDF text editor (src/project).             *)
(*                                                                         *)
(* A span or a block is a Python dict: here a function from the keys that  *)
(* are present to their values, so that `"font" in span`, span.get(k, d)   *)
(* and span[k] = v are modelled as the code executes them.  A Python str   *)
(* is a sequence of one-character strings, so that lower(), split(),       *)
(* strip(), isdigit() and the substring tests are computed, not assumed.   *)
(* A Python float is a fixed-point integer counted in 1/Unit of a point;   *)
(* a product with a decimal constant is truncated to that grid.            *)
(***************************************************************************)
EXTENDS Integers, Sequences, FiniteSets, TLC

VARIABLES node, prev, op, prevOp, res, steps, fontIn, variants, arg, ret, doc, ocr,
          sessions, files, calls, now, uuids

vars == <<node, prev, op, prevOp, res, steps, fontIn, variants, arg, ret, doc, ocr,
          sessions, files, calls, now, uuids>>

(* ------------------------------ bounds --------------------------------- *)
\* Number of reinsert calls made in a row on one node.
MaxSteps == 2

\* Fixed-point grid: values are counted in 1/Unit of a point.
Unit == 100

\* Number of entries in the word list of one recognised image.
MaxWords == 3

\* Number of lines in a block handed to fix_line_breaks.
MaxLines == 3

\* Number of pages of an uploaded document.
MaxPages == 2

\* Number of blocks handed to merge_similar_blocks.
MaxBlocks == 2

(* --------------------------- string literals --------------------------- *)
s_bold == <<"b", "o", "l", "d">>
s_heavy == <<"h", "e", "a", "v", "y">>
s_black == <<"b", "l", "a", "c", "k">>
s_italic == <<"i", "t", "a", "l", "i", "c">>
s_oblique == <<"o", "b", "l", "i", "q", "u", "e">>
s_normal == <<"n", "o", "r", "m", "a", "l">>
s_helvetica == <<"h", "e", "l", "v", "e", "t", "i", "c", "a">>
s_times == <<"t", "i", "m", "e", "s">>
s_courier == <<"c", "o", "u", "r", "i", "e", "r">>
s_arial == <<"a", "r", "i", "a", "l">>
s_verdana == <<"v", "e", "r", "d", "a", "n", "a">>
s_tahoma == <<"t", "a", "h", "o", "m", "a">>
s_trebuchet == <<"t", "r", "e", "b", "u", "c", "h", "e", "t">>
s_segoe_ui == <<"s", "e", "g", "o", "e", " ", "u", "i">>
s_georgia == <<"g", "e", "o", "r", "g", "i", "a">>
s_palatino == <<"p", "a", "l", "a", "t", "i", "n", "o">>
s_garamond == <<"g", "a", "r", "a", "m", "o", "n", "d">>
s_cambria == <<"c", "a", "m", "b", "r", "i", "a">>
s_consolas == <<"c", "o", "n", "s", "o", "l", "a", "s">>
s_monaco == <<"m", "o", "n", "a", "c", "o">>
s_lucida_console == <<"l", "u", "c", "i", "d", "a", " ", "c", "o", "n", "s", "o", "l", "e">>
s_helv == <<"h", "e", "l", "v">>
s_helvb == <<"h", "e", "l", "v", "b">>
s_helvi == <<"h", "e", "l", "v", "i">>
s_helvbi == <<"h", "e", "l", "v", "b", "i">>
s_tiro == <<"t", "i", "r", "o">>
s_tirob == <<"t", "i", "r", "o", "b">>
s_tiroi == <<"t", "i", "r", "o", "i">>
s_tirobi == <<"t", "i", "r", "o", "b", "i">>
s_cour == <<"c", "o", "u", "r">>
s_courb == <<"c", "o", "u", "r", "b">>
s_couri == <<"c", "o", "u", "r", "i">>
s_courbi == <<"c", "o", "u", "r", "b", "i">>
s_Times_Italic == <<"T", "i", "m", "e", "s", "-", "I", "t", "a", "l", "i", "c">>
s_Times_Bold == <<"T", "i", "m", "e", "s", "-", "B", "o", "l", "d">>
s_Helvetica_Oblique == <<"H", "e", "l", "v", "e", "t", "i", "c", "a", "-", "O", "b", "l", "i", "q", "u", "e">>
s_Arial_Black == <<"A", "r", "i", "a", "l", " ", "B", "l", "a", "c", "k">>
s_Futura == <<"F", "u", "t", "u", "r", "a">>
s_Georgia == <<"G", "e", "o", "r", "g", "i", "a">>
s_sp_times_sp == <<" ", "t", "i", "m", "e", "s", " ">>
s_Courier_New == <<"C", "o", "u", "r", "i", "e", "r", " ", "N", "e", "w">>
s_Arial_MT == <<"A", "r", "i", "a", "l", " ", "M", "T">>
s_underline == <<"u", "n", "d", "e", "r", "l", "i", "n", "e">>
s_solid == <<"s", "o", "l", "i", "d">>
s_dashed == <<"d", "a", "s", "h", "e", "d">>
s_dotted == <<"d", "o", "t", "t", "e", "d">>
s_double == <<"d", "o", "u", "b", "l", "e">>
s_wavy == <<"w", "a", "v", "y">>
s_none == <<"n", "o", "n", "e">>
s_underline_dashed == <<"u", "n", "d", "e", "r", "l", "i", "n", "e", " ", "d", "a", "s", "h", "e", "d">>
s_underline_double_red == <<"u", "n", "d", "e", "r", "l", "i", "n", "e", " ", "d", "o", "u", "b", "l", "e", " ", "r", "e", "d">>
s_small_caps == <<"s", "m", "a", "l", "l", "-", "c", "a", "p", "s">>
s_sc == <<"s", "c">>
s_baseline == <<"b", "a", "s", "e", "l", "i", "n", "e">>
s_sub == <<"s", "u", "b">>
s_super == <<"s", "u", "p", "e", "r">>
s_text_top == <<"t", "e", "x", "t", "-", "t", "o", "p">>
s_text_bottom == <<"t", "e", "x", "t", "-", "b", "o", "t", "t", "o", "m">>
s_middle == <<"m", "i", "d", "d", "l", "e">>
s_700 == <<"7", "0", "0">>
s_400 == <<"4", "0", "0">>
s_Bold == <<"B", "o", "l", "d">>
s_abc == <<"a", "b", "c">>
s_thin == <<"t", "h", "i", "n">>
s_extra_light == <<"e", "x", "t", "r", "a", "-", "l", "i", "g", "h", "t">>
s_light == <<"l", "i", "g", "h", "t">>
s_regular == <<"r", "e", "g", "u", "l", "a", "r">>
s_medium == <<"m", "e", "d", "i", "u", "m">>
s_semi_bold == <<"s", "e", "m", "i", "-", "b", "o", "l", "d">>
s_extra_bold == <<"e", "x", "t", "r", "a", "-", "b", "o", "l", "d">>
s_pt == <<"p", "t">>
s_px == <<"p", "x">>
s_em == <<"e", "m">>
s_rem == <<"r", "e", "m">>
s_pct == <<"%">>
s_dots == <<".", ".", ".">>
s_sfx_mt == <<" ", "m", "t">>
s_sfx_ms == <<" ", "m", "s">>
s_sfx_std == <<" ", "s", "t", "d">>
s_sfx_pro == <<" ", "p", "r", "o">>
s_sfx_regular == <<" ", "r", "e", "g", "u", "l", "a", "r">>
s_uppercase == <<"u", "p", "p", "e", "r", "c", "a", "s", "e">>
s_lowercase == <<"l", "o", "w", "e", "r", "c", "a", "s", "e">>
s_capitalize == <<"c", "a", "p", "i", "t", "a", "l", "i", "z", "e">>
s_vertical_rl == <<"v", "e", "r", "t", "i", "c", "a", "l", "-", "r", "l">>
s_vertical_lr == <<"v", "e", "r", "t", "i", "c", "a", "l", "-", "l", "r">>
s_horizontal_tb == <<"h", "o", "r", "i", "z", "o", "n", "t", "a", "l", "-", "t", "b">>
s_vertical == <<"v", "e", "r", "t", "i", "c", "a", "l">>
s_auto == <<"a", "u", "t", "o">>
s_antialiased == <<"a", "n", "t", "i", "a", "l", "i", "a", "s", "e", "d">>
s_subpixel_antialiased == <<"s", "u", "b", "p", "i", "x", "e", "l", "-", "a", "n", "t", "i", "a", "l", "i", "a", "s", "e", "d">>
s_font_family_prefix == <<"f", "o", "n", "t", "-", "f", "a", "m", "i", "l", "y", ":", " ">>
s_aB_c == <<"a", "B", " ", "c">>
s_Hi == <<"H", "i">>
s_14pt == <<"1", "4", "p", "t">>
s_0 == <<"0">>
s_1_5em == <<"1", ".", "5", "e", "m">>
s_2px == <<"2", "p", "x">>
s_m1pt == <<"-", "1", "p", "t">>
s_Times_New_Roman == <<"T", "i", "m", "e", "s", " ", "N", "e", "w", " ", "R", "o", "m", "a", "n">>
s_color == <<"c", "o", "l", "o", "r">>
s_left == <<"l", "e", "f", "t">>
s_right == <<"r", "i", "g", "h", "t">>
s_center == <<"c", "e", "n", "t", "e", "r">>
s_justify == <<"j", "u", "s", "t", "i", "f", "y">>
s_inter_word == <<"i", "n", "t", "e", "r", "-", "w", "o", "r", "d">>
s_inter_character == <<"i", "n", "t", "e", "r", "-", "c", "h", "a", "r", "a", "c", "t", "e", "r">>
s_hidden == <<"h", "i", "d", "d", "e", "n">>
s_clip == <<"c", "l", "i", "p">>
s_ellipsis == <<"e", "l", "l", "i", "p", "s", "i", "s">>
s_visible == <<"v", "i", "s", "i", "b", "l", "e">>
s_break_word == <<"b", "r", "e", "a", "k", "-", "w", "o", "r", "d">>
s_anywhere == <<"a", "n", "y", "w", "h", "e", "r", "e">>
s_balance == <<"b", "a", "l", "a", "n", "c", "e">>
s_nowrap == <<"n", "o", "w", "r", "a", "p">>
s_pre == <<"p", "r", "e">>
s_pre_wrap == <<"p", "r", "e", "-", "w", "r", "a", "p">>
s_pre_line == <<"p", "r", "e", "-", "l", "i", "n", "e">>
s_break_spaces == <<"b", "r", "e", "a", "k", "-", "s", "p", "a", "c", "e", "s">>
s_manual == <<"m", "a", "n", "u", "a", "l">>
s_an_example == <<"a", "n", " ", "e", "x", "a", "m", "p", "l", "e">>
s_150pct == <<"1", "5", "0", "%">>
s_Times_BoldItalic == <<"T", "i", "m", "e", "s", "-", "B", "o", "l", "d", "I", "t", "a", "l", "i", "c">>
s_sp == <<" ">>
s_sp_c_sp == <<" ", "c", " ">>
s_c == <<"c">>
s_Hi_c == <<"H", "i", " ", "c">>
s_Hi_Hi == <<"H", "i", " ", "H", "i">>
s_exam_ == <<"e", "x", "a", "m", "-">>
s_ple_text == <<"p", "l", "e", " ", "t", "e", "x", "t", ".">>
s_example_text == <<"e", "x", "a", "m", "p", "l", "e", " ", "t", "e", "x", "t", ".">>
s_a == <<"a">>
s_B_dot == <<"B", ".">>
s_dash == <<"-">>
s_Hello_world == <<"H", "e", "l", "l", "o", " ", "w", "o", "r", "l", "d">>
s_Hello_World == <<"H", "e", "l", "l", "o", " ", "W", "o", "r", "l", "d">>
s_Goodbye == <<"G", "o", "o", "d", "b", "y", "e">>
s_text_align_ == <<"t", "e", "x", "t", "-", "a", "l", "i", "g", "n", ":", " ">>
s_semi == <<";">>
s_12 == <<"1", "2">>
s_1_5 == <<"1", ".", "5">>
s_minus_2 == <<"-", "2">>
s_point_5 == <<".", "5">>
s_150 == <<"1", "5", "0">>
s_underline_double == <<"u", "n", "d", "e", "r", "l", "i", "n", "e", " ", "d", "o", "u", "b", "l", "e">>
s_underline_wavy == <<"u", "n", "d", "e", "r", "l", "i", "n", "e", " ", "w", "a", "v", "y">>
s_underline_dotted == <<"u", "n", "d", "e", "r", "l", "i", "n", "e", " ", "d", "o", "t", "t", "e", "d">>
s_line_height_ == <<"l", "i", "n", "e", "-", "h", "e", "i", "g", "h", "t", ":", " ">>
s_dot == <<".">>
s_empty == <<>>

(* ------------------------- Python str operations ----------------------- *)
UpperChars == <<"A","B","C","D","E","F","G","H","I","J","K","L","M","N","O","P","Q","R","S","T","U","V","W","X","Y","Z">>
LowerChars == <<"a","b","c","d","e","f","g","h","i","j","k","l","m","n","o","p","q","r","s","t","u","v","w","x","y","z">>
DigitChars == <<"0","1","2","3","4","5","6","7","8","9">>
SpaceChars == {" ", "\t", "\n"}

IndexIn(c, table) == CHOOSE i \in 1..Len(table) : table[i] = c
IsIn(c, table) == \E i \in 1..Len(table) : table[i] = c

\* str.lower() / str.upper(), one character
LowerChar(c) == IF IsIn(c, UpperChars) THEN LowerChars[IndexIn(c, UpperChars)] ELSE c
UpperChar(c) == IF IsIn(c, LowerChars) THEN UpperChars[IndexIn(c, LowerChars)] ELSE c

\* str.lower()
Lower(s) == [i \in 1..Len(s) |-> LowerChar(s[i])]
\* str.upper()
Upper(s) == [i \in 1..Len(s) |-> UpperChar(s[i])]

\* `sub in s` for two str
Contains(s, sub) == \E i \in 1..(Len(s) - Len(sub) + 1) : SubSeq(s, i, i + Len(sub) - 1) = sub

\* s.endswith(suf)
EndsWith(s, suf) == Len(s) >= Len(suf) /\ SubSeq(s, Len(s) - Len(suf) + 1, Len(s)) = suf

\* s.startswith(pre)
StartsWith(s, pre) == Len(s) >= Len(pre) /\ SubSeq(s, 1, Len(pre)) = pre

\* s.split(sep)[0] for a one-character separator: the text before the first sep
SplitFirst(s, sep) ==
    IF \E i \in 1..Len(s) : s[i] = sep
    THEN SubSeq(s, 1, (CHOOSE i \in 1..Len(s) : s[i] = sep /\ \A j \in 1..(i-1) : s[j] # sep) - 1)
    ELSE s

\* s.lstrip(), s.rstrip(), s.strip()
RECURSIVE LStrip(_)
LStrip(s) == IF s # <<>> /\ Head(s) \in SpaceChars THEN LStrip(Tail(s)) ELSE s
RECURSIVE RStrip(_)
RStrip(s) == IF s # <<>> /\ s[Len(s)] \in SpaceChars THEN RStrip(SubSeq(s, 1, Len(s) - 1)) ELSE s
Strip(s) == RStrip(LStrip(s))

\* s.replace(a, b) for one-character a and b
ReplaceChar(s, a, b) == [i \in 1..Len(s) |-> IF s[i] = a THEN b ELSE s[i]]

\* s.split(): the whitespace-separated words of s
RECURSIVE SplitWords(_, _, _)
SplitWords(s, cur, acc) ==
    IF s = <<>> THEN (IF cur = <<>> THEN acc ELSE Append(acc, cur))
    ELSE IF Head(s) \in SpaceChars
         THEN SplitWords(Tail(s), <<>>, IF cur = <<>> THEN acc ELSE Append(acc, cur))
         ELSE SplitWords(Tail(s), Append(cur, Head(s)), acc)
Split(s) == SplitWords(s, <<>>, <<>>)

\* s.isdigit()
IsDigit(s) == s # <<>> /\ \A i \in 1..Len(s) : IsIn(s[i], DigitChars)

\* int(s) for a str of digits
RECURSIVE ParseInt(_)
ParseInt(s) == IF s = <<>> THEN 0 ELSE 10 * ParseInt(SubSeq(s, 1, Len(s) - 1)) + (IndexIn(s[Len(s)], DigitChars) - 1)

(* ------------------------ Python int operations ------------------------ *)
\* a & b, a | b, a & ~m on non-negative ints
RECURSIVE BitAnd(_, _)
BitAnd(a, b) == IF a = 0 \/ b = 0 THEN 0 ELSE (a % 2) * (b % 2) + 2 * BitAnd(a \div 2, b \div 2)
BitOr(a, b) == a + b - BitAnd(a, b)
AndNot(a, m) == a - BitAnd(a, m)

\* x * (num/den) on the fixed-point grid
MulF(x, num, den) == IF x * num >= 0 THEN (x * num) \div den ELSE -((-(x * num)) \div den)

Max(a, b) == IF a >= b THEN a ELSE b
Min(a, b) == IF a <= b THEN a ELSE b

(* ----------------------------- Python dict ----------------------------- *)
\* d[k] = v
Put(d, k, v) == [a \in (DOMAIN d) \cup {k} |-> IF a = k THEN v ELSE d[a]]
\* d.get(k, default)
Get(d, k, default) == IF k \in DOMAIN d THEN d[k] ELSE default
\* the empty dict
EmptyDict == [a \in {} |-> 0]

(* ----------------------- values of a style map ------------------------- *)
\* A style value is a str, an int, a float (on the fixed-point grid) or None.
PStr(s) == [t |-> "str", n |-> 0, s |-> s]
PInt(n) == [t |-> "int", n |-> n, s |-> <<>>]
PFloat(n) == [t |-> "float", n |-> n, s |-> <<>>]
PNone == [t |-> "none", n |-> 0, s |-> <<>>]

\* value == "literal"
PyEq(v, lit) == v.t = "str" /\ v.s = lit
\* value in [lit, ...]
PyIn(v, lits) == v.t = "str" /\ v.s \in lits

\* The result of a handler: the node as the call left it, and the exception
\* that ended the call ("" when it returned).
Ok(n) == [node |-> n, exc |-> ""]
Raise(n, e) == [node |-> n, exc |-> e]

(* ------------------------------ FontResolver --------------------------- *)
CORE_FONTS ==
    (s_helvetica :> ("normal" :> s_helv @@ "bold" :> s_helvb @@ "italic" :> s_helvi @@ "bold-italic" :> s_helvbi)) @@
    (s_times :> ("normal" :> s_tiro @@ "bold" :> s_tirob @@ "italic" :> s_tiroi @@ "bold-italic" :> s_tirobi)) @@
    (s_courier :> ("normal" :> s_cour @@ "bold" :> s_courb @@ "italic" :> s_couri @@ "bold-italic" :> s_courbi))

FONT_FAMILY_MAP ==
    (s_arial :> s_helvetica) @@ (s_verdana :> s_helvetica) @@ (s_tahoma :> s_helvetica) @@
    (s_trebuchet :> s_helvetica) @@ (s_segoe_ui :> s_helvetica) @@
    (s_georgia :> s_times) @@ (s_palatino :> s_times) @@ (s_garamond :> s_times) @@ (s_cambria :> s_times) @@
    (s_consolas :> s_courier) @@ (s_monaco :> s_courier) @@ (s_lucida_console :> s_courier)

\* the style key chosen from the two flags
VariantStyle(bold, italic) ==
    IF bold /\ italic THEN "bold-italic"
    ELSE IF bold THEN "bold"
    ELSE IF italic THEN "italic"
    ELSE "normal"

\* get_font_variant choosing the style from the bold flag alone
get_font_variant_bold_only(font_name, bold, italic) ==
    LET name == Strip(SplitFirst(Lower(font_name), "-"))
        mapped == IF name \in DOMAIN FONT_FAMILY_MAP THEN FONT_FAMILY_MAP[name] ELSE name
        base_font == IF mapped \in DOMAIN CORE_FONTS THEN mapped ELSE s_helvetica
    IN CORE_FONTS[base_font][VariantStyle(bold, FALSE)]

get_font_variant(font_name, bold, italic) ==
    LET name == Strip(SplitFirst(Lower(font_name), "-"))
        mapped == IF name \in DOMAIN FONT_FAMILY_MAP THEN FONT_FAMILY_MAP[name] ELSE name
        base_font == IF mapped \in DOMAIN CORE_FONTS THEN mapped ELSE s_helvetica
    IN CORE_FONTS[base_font][VariantStyle(bold, italic)]

\* normalize_font_name: lower-case, hyphens to spaces, common suffixes removed
RECURSIVE StripSuffixes(_, _)
StripSuffixes(name, suffixes) ==
    IF suffixes = <<>> THEN name
    ELSE StripSuffixes(IF EndsWith(name, Head(suffixes))
                       THEN SubSeq(name, 1, Len(name) - Len(Head(suffixes)))
                       ELSE name,
                       Tail(suffixes))

normalize_font_name(font_name) ==
    LET name == ReplaceChar(Strip(Lower(font_name)), "-", " ")
    IN Strip(StripSuffixes(name, <<s_sfx_mt, s_sfx_ms, s_sfx_std, s_sfx_pro, s_sfx_regular>>))

\* approximate metrics of a font, relative to the font size, in 1/100
get_font_metrics(font_name) ==
    LET base == [x_height |-> 50, cap_height |-> 70, ascender |-> 80, descender |-> -20,
                 line_gap |-> 20, stem_width |-> 8, underline_position |-> -10,
                 underline_thickness |-> 5]
        name == normalize_font_name(font_name)
        fam == IF name \in DOMAIN FONT_FAMILY_MAP THEN FONT_FAMILY_MAP[name] ELSE s_empty
    IN IF fam = s_times THEN [base EXCEPT !.x_height = 45, !.cap_height = 65, !.stem_width = 6]
       ELSE IF fam = s_courier THEN [base EXCEPT !.x_height = 52, !.stem_width = 10, !.line_gap = 25]
       ELSE base

(* --------------------------- external collaborator --------------------- *)
\* pdf_writer.get_text_width(text): the document model's text measure.  An
\* upper-case letter is wider than any other character.
CharWidth(c) == IF IsIn(c, UpperChars) THEN 7 * Unit ELSE 5 * Unit
RECURSIVE get_text_width(_)
get_text_width(text) == IF text = <<>> THEN 0 ELSE CharWidth(Head(text)) + get_text_width(Tail(text))

(* ------------------------------ weight / bold -------------------------- *)
extract_bold(span) ==
    IF BitAnd(Get(span, "flags", 0), 16) # 0 THEN "font-weight: bold;"
    ELSE IF "font" \in DOMAIN span
            /\ \E x \in {s_bold, s_heavy, s_black} : Contains(Lower(span["font"]), x)
         THEN "font-weight: bold;"
    ELSE "font-weight: normal;"

\* reinsert_bold writing the flags instead of read-modify-writing them
reinsert_bold_overwriting(span, style_dict) ==
    IF "font-weight" \notin DOMAIN style_dict THEN Ok(span)
    ELSE Ok(Put(span, "flags", IF PyEq(style_dict["font-weight"], s_bold) THEN 16 ELSE 0))

reinsert_bold(span, style_dict) ==
    IF "font-weight" \notin DOMAIN style_dict THEN Ok(span)
    ELSE
    LET is_bold == PyEq(style_dict["font-weight"], s_bold)
        flags0 == Get(span, "flags", 0)
        flags == IF is_bold THEN BitOr(flags0, 16) ELSE AndNot(flags0, 16)
        s1 == Put(span, "flags", flags)
        is_italic == BitAnd(flags, 1) # 0
        s2 == IF "font" \in DOMAIN s1
              THEN Put(s1, "font", get_font_variant(s1["font"], is_bold, is_italic))
              ELSE s1
        s3 == IF is_bold
              THEN Put(s2, "stroke_width", MulF(Get(s2, "size", 12 * Unit), 5, 100))
              ELSE s2
    IN Ok(s3)

WEIGHT_MAP ==
    (s_thin :> 100) @@ (s_extra_light :> 200) @@ (s_light :> 300) @@ (s_normal :> 400) @@
    (s_regular :> 400) @@ (s_medium :> 500) @@ (s_semi_bold :> 600) @@ (s_bold :> 700) @@
    (s_extra_bold :> 800) @@ (s_black :> 900)

\* [exc, val]: the numeric weight, or the exception the conversion ends with
normalize_font_weight(weight) ==
    IF weight.t = "int" THEN [exc |-> "", val |-> Max(1, Min(1000, weight.n))]
    ELSE IF weight.t # "str" THEN [exc |-> "AttributeError", val |-> 0]
    ELSE IF IsDigit(weight.s) THEN [exc |-> "", val |-> Max(1, Min(1000, ParseInt(weight.s)))]
    ELSE IF Lower(weight.s) \in DOMAIN WEIGHT_MAP THEN [exc |-> "", val |-> WEIGHT_MAP[Lower(weight.s)]]
    ELSE [exc |-> "", val |-> 400]

reinsert_font_weight(span, style_dict) ==
    IF "font-weight" \notin DOMAIN style_dict THEN Ok(span)
    ELSE
    LET norm == normalize_font_weight(style_dict["font-weight"])
        weight == norm.val
        flags0 == Get(span, "flags", 0)
        flags == IF weight >= 700 THEN BitOr(flags0, 16) ELSE AndNot(flags0, 16)
        s1 == Put(span, "flags", flags)
        is_italic == BitAnd(flags, 1) # 0
        s2 == IF "font" \in DOMAIN s1
              THEN Put(s1, "font", get_font_variant(s1["font"], weight >= 700, is_italic))
              ELSE s1
        s3 == Put(s2, "weight", weight)
        s4 == IF weight > 400
              THEN Put(s3, "stroke_width", (Get(s3, "size", 12 * Unit) * 5 * (weight - 400)) \div (100 * 500))
              ELSE s3
    IN IF norm.exc # "" THEN Raise(span, norm.exc) ELSE Ok(s4)

(* ------------------------------ style / italic ------------------------- *)
extract_italic(span) ==
    IF BitAnd(Get(span, "flags", 0), 1) # 0 THEN "font-style: italic;"
    ELSE IF "font" \in DOMAIN span
            /\ \E x \in {s_italic, s_oblique} : Contains(Lower(span["font"]), x)
         THEN "font-style: italic;"
    ELSE "font-style: normal;"

\* the 12-degree slant matrix, in 1/10000
SlantMatrix == <<10000, 0, 2679, 10000, 0, 0>>

reinsert_italic(span, style_dict) ==
    IF "font-style" \notin DOMAIN style_dict THEN Ok(span)
    ELSE
    LET is_italic == PyEq(style_dict["font-style"], s_italic)
        flags0 == Get(span, "flags", 0)
        flags == IF is_italic THEN BitOr(flags0, 1) ELSE AndNot(flags0, 1)
        s1 == Put(span, "flags", flags)
        is_bold == BitAnd(flags, 16) # 0
        s2 == IF "font" \in DOMAIN s1
              THEN Put(s1, "font", get_font_variant(s1["font"], is_bold, is_italic))
              ELSE s1
        fname == Lower(Get(s2, "font", s_empty))
        s3 == IF is_italic /\ ~(\E x \in {s_italic, s_oblique} : Contains(fname, x))
              THEN Put(s2, "matrix", SlantMatrix)
              ELSE s2
    IN Ok(s3)

extract_font_style(span) ==
    IF BitAnd(Get(span, "flags", 0), 1) # 0 THEN "font-style: italic;"
    ELSE IF "font" \in DOMAIN span /\ Contains(Lower(span["font"]), s_italic) THEN "font-style: italic;"
    ELSE IF "font" \in DOMAIN span /\ Contains(Lower(span["font"]), s_oblique) THEN "font-style: oblique;"
    ELSE "font-style: normal;"

reinsert_font_style(span, style_dict) ==
    IF "font-style" \notin DOMAIN style_dict THEN Ok(span)
    ELSE
    LET style == style_dict["font-style"]
        slanted == PyIn(style, {s_italic, s_oblique})
        flags0 == Get(span, "flags", 0)
        flags == IF slanted THEN BitOr(flags0, 1) ELSE AndNot(flags0, 1)
        s1 == Put(span, "flags", flags)
        is_bold == BitAnd(flags, 16) # 0
        s2 == IF "font" \in DOMAIN s1
              THEN Put(s1, "font", get_font_variant(s1["font"], is_bold, slanted))
              ELSE s1
    IN Ok(Put(s2, "font_style", style))

(* ------------------------------ underline family ----------------------- *)
reinsert_underline(span, style_dict) ==
    IF "text-decoration" \notin DOMAIN style_dict THEN Ok(span)
    ELSE
    LET decoration == style_dict["text-decoration"]
    IN IF decoration.t # "str" THEN Raise(span, "TypeError")
       ELSE IF ~Contains(decoration.s, s_underline) THEN Ok(span)
       ELSE
       LET s1 == Put(span, "flags", BitOr(Get(span, "flags", 0), 4))
           parts == Split(decoration.s)
           style == IF Len(parts) > 1 THEN parts[2] ELSE s_solid
           color == IF Len(parts) > 2 THEN SubSeq(parts, 3, Len(parts)) ELSE <<>>
           s2 == Put(s1, "underline_style", style)
           s3 == IF color # <<>> THEN Put(s2, "underline_color", color) ELSE s2
           font_size == Get(s3, "size", 12 * Unit)
           metrics == get_font_metrics(Get(s3, "font", s_helvetica))
           position == MulF(font_size, metrics.underline_position, 100)
           thickness == MulF(font_size, metrics.underline_thickness, 100)
       IN IF style = s_double
          THEN Ok(Put(Put(s3, "underline_positions", <<position, position - thickness * 3>>),
                      "underline_thickness", thickness))
          ELSE IF style \in {s_dotted, s_dashed}
          THEN Ok(Put(Put(Put(s3, "underline_dash",
                              IF style = s_dotted THEN <<thickness, thickness * 2>>
                              ELSE <<thickness * 3, thickness * 2>>),
                          "underline_position", position),
                      "underline_thickness", thickness))
          ELSE IF style = s_wavy
          THEN Ok(Put(s3, "underline_wave",
                      [amplitude |-> thickness * 2, length |-> MulF(font_size, 4, 10), position |-> position]))
          ELSE Ok(Put(Put(s3, "underline_position", position), "underline_thickness", thickness))

\* max(0.5, font_size * 0.04) and the like
ThicknessOf(font_size, pct) == Max(Unit \div 2, MulF(font_size, pct, 100))

reinsert_dashed_underline(span, style_dict) ==
    IF "text-decoration-style" \notin DOMAIN style_dict THEN Ok(span)
    ELSE
    LET style == style_dict["text-decoration-style"]
    IN IF ~PyIn(style, {s_dashed, s_dotted, s_wavy}) THEN Ok(span)
       ELSE
       LET s1 == Put(Put(span, "flags", BitOr(Get(span, "flags", 0), 4)), "underline_style", style.s)
       IN IF "size" \notin DOMAIN s1 THEN Ok(s1)
          ELSE
          LET font_size == s1["size"]
              s2 == IF style.s = s_dashed
                    THEN Put(Put(Put(s1, "dash_pattern", <<(3 * font_size) \div 12, (2 * font_size) \div 12>>),
                                 "underline_thickness", ThicknessOf(font_size, 4)),
                             "underline_position", -MulF(font_size, 10, 100))
                    ELSE IF style.s = s_dotted
                    THEN Put(Put(Put(s1, "dash_pattern", <<font_size \div 12, (2 * font_size) \div 12>>),
                                 "underline_thickness", ThicknessOf(font_size, 8)),
                             "underline_position", -MulF(font_size, 10, 100))
                    ELSE Put(Put(Put(Put(s1, "wave_amplitude", MulF(font_size, 5, 100)),
                                     "wave_length", MulF(font_size, 4, 10)),
                                 "underline_thickness", ThicknessOf(font_size, 4)),
                             "underline_position", -MulF(font_size, 15, 100))
          IN Ok(Put(s2, "baseline_offset", -MulF(font_size, 10, 100)))

reinsert_double_underline(span, style_dict) ==
    IF ~("text-decoration-style" \in DOMAIN style_dict
         /\ PyEq(style_dict["text-decoration-style"], s_double))
    THEN Ok(span)
    ELSE
    LET s1 == Put(Put(span, "flags", BitOr(Get(span, "flags", 0), 4)), "double_underline", TRUE)
    IN IF "text" \in DOMAIN s1 /\ "size" \in DOMAIN s1
       THEN LET text_height == s1["size"]
            IN Ok(Put(Put(s1, "underline_positions",
                          <<-MulF(text_height, 10, 100), -MulF(text_height, 20, 100)>>),
                      "underline_thickness", ThicknessOf(text_height, 4)))
       ELSE Ok(s1)

extract_dashed_underline(span) ==
    IF BitAnd(Get(span, "flags", 0), 4) # 0
    THEN LET style == Get(span, "underline_style", s_empty)
         IN IF style = s_dashed THEN "text-decoration-style: dashed;"
            ELSE IF style = s_dotted THEN "text-decoration-style: dotted;"
            ELSE IF style = s_wavy THEN "text-decoration-style: wavy;"
            ELSE ""
    ELSE ""

extract_double_underline(span) ==
    IF BitAnd(Get(span, "flags", 0), 4) # 0 /\ Get(span, "double_underline", FALSE)
    THEN "text-decoration-style: double;"
    ELSE ""

(* ------------------------------ small caps ----------------------------- *)
\* one entry of span["chars"] as the simulated small caps write it
SmallCapsChar(c, flags, base_size) ==
    IF IsIn(c, LowerChars)
    THEN [c |-> UpperChar(c), flags |-> flags, size |-> MulF(base_size, 8, 10)]
    ELSE [c |-> c, flags |-> flags, size |-> base_size]

reinsert_small_caps(span, style_dict) ==
    IF ~("font-variant" \in DOMAIN style_dict /\ PyEq(style_dict["font-variant"], s_small_caps))
    THEN Ok(span)
    ELSE
    LET flags == BitOr(Get(span, "flags", 0), 64)
        s1 == Put(span, "flags", flags)
        s2 == IF "text" \in DOMAIN s1 /\ ~EndsWith(Lower(Get(s1, "font", s_empty)), s_sc)
              THEN LET text == s1["text"]
                       base_size == Get(s1, "size", 12 * Unit)
                   IN Put(s1, "chars", [i \in 1..Len(text) |-> SmallCapsChar(text[i], flags, base_size)])
              ELSE s1
    IN Ok(Put(s2, "small_caps", TRUE))

(* ------------------------------ vertical align ------------------------- *)
extract_vertical_align(span) ==
    LET flags == Get(span, "flags", 0)
    IN IF BitAnd(flags, 2) # 0 THEN "vertical-align: super;"
       ELSE IF BitAnd(flags, 3) # 0 THEN "vertical-align: sub;"
       ELSE IF "rise" \in DOMAIN span /\ span["rise"] > 0 THEN "vertical-align: super;"
       ELSE IF "rise" \in DOMAIN span /\ span["rise"] < 0 THEN "vertical-align: sub;"
       ELSE "vertical-align: baseline;"

reinsert_vertical_align(span, style_dict) ==
    IF "vertical-align" \notin DOMAIN style_dict THEN Ok(span)
    ELSE
    LET align == style_dict["vertical-align"]
        flags0 == AndNot(Get(span, "flags", 0), BitOr(2, 3))
        s1 == Put(Put(span, "flags", flags0), "rise", 0)
        size == Get(s1, "size", 12 * Unit)
        s2 == IF PyEq(align, s_super)
              THEN Put(Put(s1, "flags", BitOr(flags0, 2)), "rise", MulF(size, 33, 100))
              ELSE IF PyEq(align, s_sub)
              THEN Put(Put(s1, "flags", BitOr(flags0, 3)), "rise", MulF(-size, 33, 100))
              ELSE IF PyEq(align, s_text_top) THEN Put(s1, "rise", size)
              ELSE IF PyEq(align, s_text_bottom) THEN Put(s1, "rise", -size)
              ELSE IF PyEq(align, s_middle) THEN Put(s1, "rise", MulF(size, 5, 10))
              ELSE s1
        s3 == IF PyIn(align, {s_sub, s_super})
              THEN Put(s2, "size", MulF(Get(s2, "size", 12 * Unit), 75, 100))
              ELSE s2
    IN Ok(s3)

(* ------------------------------ font family ---------------------------- *)
extract_font_family(span) ==
    IF "font" \in DOMAIN span
    THEN LET name == normalize_font_name(span["font"])
         IN s_font_family_prefix \o (IF name \in DOMAIN FONT_FAMILY_MAP THEN FONT_FAMILY_MAP[name] ELSE name) \o <<";">>
    ELSE s_empty

reinsert_font_family(span, style_dict) ==
    IF "font-family" \notin DOMAIN style_dict THEN Ok(span)
    ELSE IF style_dict["font-family"].t # "str" THEN Raise(span, "AttributeError")
    ELSE
    LET font_name == normalize_font_name(style_dict["font-family"].s)
        flags == Get(span, "flags", 0)
        is_bold == BitAnd(flags, 16) # 0
        is_italic == BitAnd(flags, 1) # 0
        s1 == IF font_name \in DOMAIN FONT_FAMILY_MAP
              THEN Put(span, "font", CORE_FONTS[FONT_FAMILY_MAP[font_name]][VariantStyle(is_bold, is_italic)])
              ELSE Put(span, "font", font_name)
    IN Ok(Put(s1, "font_family", font_name))

(* --------------------- lengths: '12pt', '1.5em', '50%' ----------------- *)
\* number of leading digits of s
RECURSIVE DigitRun(_)
DigitRun(s) == IF s # <<>> /\ IsIn(Head(s), DigitChars) THEN 1 + DigitRun(Tail(s)) ELSE 0

RECURSIVE Pow10(_)
Pow10(k) == IF k = 0 THEN 1 ELSE 10 * Pow10(k - 1)

\* float(digits '.' frac) on the fixed-point grid
DecimalValue(digits, frac) == ParseInt(digits) * Unit + (ParseInt(frac) * Unit) \div Pow10(Len(frac))

\* re.match(r'(-?\d*\.?\d+)\s*(<units>)?', s): whether it matches, group 1 as a
\* number, group 2 as the unit ("" when absent). body is s after the sign, d
\* the length of its leading digits, m the length of the digits after a point.
FirstUnit(rest, units) ==
    IF \E i \in 1..Len(units) : StartsWith(rest, units[i])
    THEN units[CHOOSE i \in 1..Len(units) : StartsWith(rest, units[i]) /\ \A j \in 1..(i - 1) : ~StartsWith(rest, units[j])]
    ELSE s_empty

MatchParts(body, d, m, neg, units) ==
    [ok |-> m >= 1 \/ d >= 1,
     value |-> (IF neg THEN -1 ELSE 1)
               * DecimalValue(SubSeq(body, 1, d), IF m >= 1 THEN SubSeq(body, d + 2, d + 1 + m) ELSE <<>>),
     unit |-> FirstUnit(LStrip(SubSeq(body, (IF m >= 1 THEN d + m + 2 ELSE d + 1), Len(body))), units)]

MatchDigits(body, d, neg, units) ==
    MatchParts(body, d,
               IF d + 1 <= Len(body) /\ body[d + 1] = "." THEN DigitRun(SubSeq(body, d + 2, Len(body))) ELSE 0,
               neg, units)

MatchLength(s, units) ==
    IF s # <<>> /\ Head(s) = "-"
    THEN MatchDigits(Tail(s), DigitRun(Tail(s)), TRUE, units)
    ELSE MatchDigits(s, DigitRun(s), FALSE, units)

LengthUnits == <<s_pt, s_px, s_em, s_rem, s_pct>>

\* value * unit_conversions[unit]
ConvertUnit(value, unit) ==
    IF unit = s_px THEN MulF(value, 75, 100)
    ELSE IF unit \in {s_em, s_rem} THEN value * 12
    ELSE IF unit = s_pct THEN MulF(value, 12, 100)
    ELSE value

\* the shared shape of normalize_font_size, normalize_letter_spacing,
\* normalize_spacing and normalize_indent, which differ in the default only
ConvertMatch(mt, default) ==
    IF ~mt.ok THEN [exc |-> "", val |-> default]
    ELSE [exc |-> "", val |-> ConvertUnit(mt.value, IF mt.unit = s_empty THEN s_pt ELSE mt.unit)]

NormalizeLength(v, default) ==
    IF v.t = "int" THEN [exc |-> "", val |-> v.n * Unit]
    ELSE IF v.t = "float" THEN [exc |-> "", val |-> v.n]
    ELSE IF v.t # "str" THEN [exc |-> "TypeError", val |-> 0]
    ELSE ConvertMatch(MatchLength(v.s, LengthUnits), default)

(* ------------------------------ font size ------------------------------ *)
normalize_font_size(size) == NormalizeLength(size, 12 * Unit)

reinsert_font_size(span, style_dict) ==
    IF "font-size" \notin DOMAIN style_dict THEN Ok(span)
    ELSE
    LET norm == normalize_font_size(style_dict["font-size"])
        size == norm.val
        s1 == Put(span, "size", size)
    IN IF norm.exc # "" THEN Raise(span, norm.exc)
       ELSE IF ~("text" \in DOMAIN s1 /\ "bbox" \in DOMAIN s1) THEN Ok(s1)
       ELSE
       LET old_size == Get(s1, "size", 12 * Unit)
       IN IF old_size = 0 THEN Raise(s1, "ZeroDivisionError")
          ELSE
          LET scale_num == size
              scale_den == old_size
              s2 == Put(s1, "bbox", [s1["bbox"] EXCEPT !.height = (@ * scale_num) \div scale_den])
              s3 == IF "baseline" \in DOMAIN s2
                    THEN Put(s2, "baseline", (s2["baseline"] * scale_num) \div scale_den)
                    ELSE s2
          IN Ok(Put(s3, "original_size", old_size))

(* ------------------------------ letter spacing ------------------------- *)
normalize_letter_spacing(spacing) == NormalizeLength(spacing, 0)

\* the per-character boxes written when the spacing is significant
RECURSIVE SpacedChars(_, _, _, _, _)
SpacedChars(text, x_pos, gap, y0, y1) ==
    IF text = <<>> THEN <<>>
    ELSE LET char_width == get_text_width(<<Head(text)>>)
         IN <<[c |-> Head(text), bbox |-> [x0 |-> x_pos, x1 |-> x_pos + char_width, y0 |-> y0, y1 |-> y1]]>>
            \o SpacedChars(Tail(text), x_pos + char_width + gap, gap, y0, y1)

reinsert_letter_spacing(span, style_dict) ==
    IF "letter-spacing" \notin DOMAIN style_dict THEN Ok(span)
    ELSE
    LET norm == normalize_letter_spacing(style_dict["letter-spacing"])
        spacing == norm.val
        s1 == Put(span, "char_spacing", spacing)
    IN IF norm.exc # "" THEN Raise(span, norm.exc)
       ELSE IF "text" \notin DOMAIN s1 THEN Ok(s1)
       ELSE
       LET text == s1["text"]
           char_count == Len(text) - 1
           total_spacing == char_count * spacing
           s2 == IF "bbox" \in DOMAIN s1
                 THEN Put(s1, "bbox", [s1["bbox"] EXCEPT !.width = @ + total_spacing])
                 ELSE s1
           s3 == Put(s2, "char_count", char_count)
           hasBox == "bbox" \in DOMAIN s3
           s4 == IF 2 * spacing > Unit
                 THEN Put(s3, "chars",
                          SpacedChars(text, IF hasBox THEN s3["bbox"].x0 ELSE 0, spacing,
                                      IF hasBox THEN s3["bbox"].y0 ELSE 0,
                                      IF hasBox THEN s3["bbox"].y1 ELSE 0))
                 ELSE s3
       IN Ok(s4)

(* ------------------------------ text transform ------------------------- *)
IsLetter(c) == IsIn(c, UpperChars) \/ IsIn(c, LowerChars)

\* str.title()
Title(s) == [i \in 1..Len(s) |->
                IF i > 1 /\ IsLetter(s[i - 1]) THEN LowerChar(s[i]) ELSE UpperChar(s[i])]

reinsert_text_transform(span, style_dict) ==
    IF ~("text-transform" \in DOMAIN style_dict /\ "text" \in DOMAIN span) THEN Ok(span)
    ELSE
    LET transform == style_dict["text-transform"]
        text == span["text"]
        s1 == Put(span, "original_text", text)
        s2 == IF PyEq(transform, s_uppercase) THEN Put(s1, "text", Upper(text))
              ELSE IF PyEq(transform, s_lowercase) THEN Put(s1, "text", Lower(text))
              ELSE IF PyEq(transform, s_capitalize) THEN Put(s1, "text", Title(text))
              ELSE s1
        new_width == get_text_width(s2["text"])
        s3 == IF "bbox" \in DOMAIN s2 /\ new_width # get_text_width(text)
              THEN Put(s2, "bbox", [s2["bbox"] EXCEPT !.width = new_width])
              ELSE s2
    IN Ok(Put(s3, "transform", transform))

(* ------------------------------ writing mode --------------------------- *)
\* a Python list stored where another handler stores a str
PList(l) == [t |-> "list", n |-> 0, s |-> l]

reinsert_text_direction(span, style_dict) ==
    IF "writing-mode" \notin DOMAIN style_dict THEN Ok(span)
    ELSE
    LET mode == style_dict["writing-mode"]
        s1 == Put(span, "transform",
                  IF PyEq(mode, s_vertical_rl) THEN PList(<<0, 1, -1, 0, 0, 0>>)
                  ELSE IF PyEq(mode, s_vertical_lr) THEN PList(<<0, -1, 1, 0, 0, 0>>)
                  ELSE PList(<<1, 0, 0, 1, 0, 0>>))
    IN IF "bbox" \in DOMAIN s1 /\ mode.t # "str" THEN Raise(s1, "AttributeError")
       ELSE
       LET s2 == IF "bbox" \in DOMAIN s1 /\ StartsWith(mode.s, s_vertical)
                 THEN LET bbox == s1["bbox"]
                          original_width == bbox.width
                      IN Put(s1, "bbox",
                             [bbox EXCEPT !.width = bbox.height,
                                          !.height = original_width,
                                          !.x0 = IF mode.s = s_vertical_rl THEN @ + original_width ELSE @])
                 ELSE s1
       IN Ok(Put(s2, "writing_mode", mode))

(* ------------------------------ font smoothing ------------------------- *)
reinsert_font_smoothing(span, style_dict) ==
    IF "font-smooth" \notin DOMAIN style_dict THEN Ok(span)
    ELSE
    LET mode == style_dict["font-smooth"]
        rendering_mode == IF PyEq(mode, s_none) THEN 1
                          ELSE IF PyIn(mode, {s_antialiased, s_subpixel_antialiased}) THEN 3
                          ELSE 0
        s1 == Put(span, "rendering_mode", rendering_mode)
    IN IF PyIn(mode, {s_antialiased, s_subpixel_antialiased})
       THEN Ok(Put(Put(s1, "stroke_width", Unit \div 10), "stroke_adjustment", TRUE))
       ELSE Ok(s1)

(* ============================ block handlers =========================== *)
\* the loop `for span in spans: if "bbox" in span: ...` that lays the spans
\* out from x_pos with `gap` between them
RECURSIVE PlaceSpans(_, _, _)
PlaceSpans(spans, x_pos, gap) ==
    IF spans = <<>> THEN <<>>
    ELSE LET span == Head(spans)
         IN IF "bbox" \in DOMAIN span
            THEN <<Put(span, "bbox", [span["bbox"] EXCEPT !.x0 = x_pos, !.x1 = x_pos + span["bbox"].width])>>
                 \o PlaceSpans(Tail(spans), x_pos + span["bbox"].width + gap, gap)
            ELSE <<span>> \o PlaceSpans(Tail(spans), x_pos, gap)

\* lines[i]["spans"][0]["bbox"] is read without a test by the loops below
FirstSpanHasBox(line) == "bbox" \in DOMAIN line["spans"][1]

(* ------------------------------ word spacing --------------------------- *)
normalize_spacing(spacing) == NormalizeLength(spacing, 0)

WordSpacingLine(line, spacing) ==
    IF "spans" \in DOMAIN line /\ Len(line["spans"]) > 1
    THEN LET word_count == Len(line["spans"]) - 1
             total_spacing == word_count * spacing
             l1 == Put(line, "spans", PlaceSpans(line["spans"], line["spans"][1]["bbox"].x0, spacing))
         IN IF "bbox" \in DOMAIN l1
            THEN Put(l1, "bbox", [l1["bbox"] EXCEPT !.width = @ + total_spacing])
            ELSE l1
    ELSE line

\* the loop over the lines, which a span without a box leaves half done
RECURSIVE WordSpacingLines(_, _)
WordSpacingLines(lines, spacing) ==
    IF lines = <<>> THEN [lines |-> <<>>, exc |-> ""]
    ELSE LET line == Head(lines)
         IN IF "spans" \in DOMAIN line /\ Len(line["spans"]) > 1 /\ ~FirstSpanHasBox(line)
            THEN [lines |-> lines, exc |-> "KeyError"]
            ELSE LET rest == WordSpacingLines(Tail(lines), spacing)
                 IN [lines |-> <<WordSpacingLine(line, spacing)>> \o rest.lines, exc |-> rest.exc]

reinsert_word_spacing(block, style_dict) ==
    IF "word-spacing" \notin DOMAIN style_dict THEN Ok(block)
    ELSE
    LET norm == normalize_spacing(style_dict["word-spacing"])
        spacing == norm.val
        b1 == Put(block, "word_spacing", spacing)
        done == WordSpacingLines(Get(b1, "lines", <<>>), spacing)
        b2 == IF "lines" \in DOMAIN b1 THEN Put(b1, "lines", done.lines) ELSE b1
    IN IF norm.exc # "" THEN Raise(block, norm.exc)
       ELSE IF done.exc # "" THEN Raise(b2, done.exc)
       ELSE Ok(Put(b2, "spacing_settings", [word_spacing |-> spacing, applied |-> TRUE]))

(* ------------------------------ line height ---------------------------- *)
\* the multiplier, in 1/Unit
normalize_line_height(value) ==
    IF value.t = "int" THEN [exc |-> "", val |-> value.n * Unit]
    ELSE IF value.t = "float" THEN [exc |-> "", val |-> value.n]
    ELSE IF value.t # "str" THEN [exc |-> "TypeError", val |-> 0]
    ELSE LET mt == MatchLength(value.s, <<s_em, s_rem, s_pct>>)
         IN IF ~mt.ok THEN [exc |-> "", val |-> MulF(Unit, 12, 10)]
            ELSE IF mt.unit = s_pct THEN [exc |-> "", val |-> MulF(mt.value, 1, 100)]
            ELSE [exc |-> "", val |-> mt.value]

\* the loop that stacks the lines from y_pos, `spacing` apart
RECURSIVE StackLines(_, _, _, _)
StackLines(lines, y_pos, base_size, spacing) ==
    IF lines = <<>> THEN <<>>
    ELSE LET line == Head(lines)
         IN IF "bbox" \in DOMAIN line
            THEN <<Put(line, "bbox", [line["bbox"] EXCEPT !.y0 = y_pos, !.y1 = y_pos + base_size])>>
                 \o StackLines(Tail(lines), y_pos + spacing, base_size, spacing)
            ELSE <<line>> \o StackLines(Tail(lines), y_pos, base_size, spacing)

reinsert_line_height(block, style_dict) ==
    IF ~("line-height" \in DOMAIN style_dict /\ "lines" \in DOMAIN block) THEN Ok(block)
    ELSE
    LET norm == normalize_line_height(style_dict["line-height"])
        height == norm.val
        lines == block["lines"]
    IN IF norm.exc # "" THEN Raise(block, norm.exc)
       ELSE IF lines = <<>> THEN Ok(block)
       ELSE
       LET base_size == IF "spans" \in DOMAIN lines[1] /\ lines[1]["spans"] # <<>>
                        THEN Get(lines[1]["spans"][1], "size", 12 * Unit)
                        ELSE 12 * Unit
           spacing == MulF(base_size, height, Unit)
           y_pos == IF "bbox" \in DOMAIN block THEN block["bbox"].y0 ELSE 0
       IN Ok(Put(Put(block, "lines", StackLines(lines, y_pos, base_size, spacing)), "line_height", height))

(* ------------------------------ text align ----------------------------- *)
AlignLine(line, alignment, blockBox) ==
    IF "bbox" \notin DOMAIN line THEN line
    ELSE
    LET block_width == blockBox.width
        line_width == line["bbox"].width
    IN IF PyEq(alignment, s_center)
       THEN Put(line, "bbox", [line["bbox"] EXCEPT !.x0 = blockBox.x0 + MulF(block_width - line_width, 1, 2)])
       ELSE IF PyEq(alignment, s_right)
       THEN Put(line, "bbox", [line["bbox"] EXCEPT !.x0 = blockBox.x0 + (block_width - line_width)])
       ELSE IF PyEq(alignment, s_justify) /\ 10 * line_width < 9 * block_width
       THEN LET words == Get(line, "spans", <<>>)
            IN IF Len(words) > 1
               THEN Put(line, "spans",
                        PlaceSpans(words, line["bbox"].x0, MulF(block_width - line_width, 1, Len(words) - 1)))
               ELSE line
       ELSE Put(line, "bbox", [line["bbox"] EXCEPT !.x0 = blockBox.x0])

reinsert_text_align(block, style_dict) ==
    IF ~("text-align" \in DOMAIN style_dict /\ "lines" \in DOMAIN block) THEN Ok(block)
    ELSE
    LET alignment == style_dict["text-align"]
        b1 == Put(block, "align", alignment)
        lines == b1["lines"]
    IN IF "bbox" \notin DOMAIN b1 THEN Ok(b1)
       ELSE Ok(Put(Put(b1, "lines", [i \in 1..Len(lines) |-> AlignLine(lines[i], alignment, b1["bbox"])]),
                   "text_align", alignment))

(* ------------------------------ text justify --------------------------- *)
RECURSIVE SumWidths(_)
SumWidths(spans) ==
    IF spans = <<>> THEN 0
    ELSE (IF "bbox" \in DOMAIN Head(spans) THEN Head(spans)["bbox"].width ELSE 0) + SumWidths(Tail(spans))

RECURSIVE TotalChars(_)
TotalChars(spans) ==
    IF spans = <<>> THEN 0 ELSE Len(Get(Head(spans), "text", s_empty)) + TotalChars(Tail(spans))

\* the inter-character loop: every span with text and a box gets per-character
\* boxes, the pen running on from span to span
RECURSIVE SpreadChars(_, _, _)
SpreadChars(spans, x_pos, gap) ==
    IF spans = <<>> THEN <<>>
    ELSE LET span == Head(spans)
         IN IF "text" \in DOMAIN span /\ "bbox" \in DOMAIN span
            THEN <<Put(span, "chars", SpacedChars(span["text"], x_pos, gap, span["bbox"].y0, span["bbox"].y1))>>
                 \o SpreadChars(Tail(spans), x_pos + get_text_width(span["text"]) + Len(span["text"]) * gap, gap)
            ELSE <<span>> \o SpreadChars(Tail(spans), x_pos, gap)

JustifyLine(line, justify_mode, block_width) ==
    IF ~("spans" \in DOMAIN line /\ Len(line["spans"]) > 1) THEN line
    ELSE
    LET spans == line["spans"]
        extra_space == block_width - SumWidths(spans)
    IN IF extra_space <= 0 THEN line
       ELSE IF PyEq(justify_mode, s_inter_word)
       THEN Put(line, "spans", PlaceSpans(spans, line["bbox"].x0, MulF(extra_space, 1, Len(spans) - 1)))
       ELSE IF TotalChars(spans) > 1
       THEN Put(line, "spans", SpreadChars(spans, line["bbox"].x0, MulF(extra_space, 1, TotalChars(spans) - 1)))
       ELSE line

reinsert_text_justify(block, style_dict) ==
    IF ~("text-justify" \in DOMAIN style_dict /\ "lines" \in DOMAIN block) THEN Ok(block)
    ELSE
    LET justify_mode == style_dict["text-justify"]
        b1 == Put(block, "justify", justify_mode)
        lines == b1["lines"]
        settings == [mode |-> justify_mode, applied |-> TRUE]
    IN IF ~PyIn(justify_mode, {s_inter_word, s_inter_character}) THEN Ok(Put(b1, "justify_settings", settings))
       ELSE IF "bbox" \notin DOMAIN b1 THEN Ok(b1)
       ELSE Ok(Put(Put(b1, "lines", [i \in 1..Len(lines) |-> JustifyLine(lines[i], justify_mode, b1["bbox"].width)]),
                   "justify_settings", settings))

(* ------------------------------ text indent ---------------------------- *)
normalize_indent(indent) == NormalizeLength(indent, 0)

reinsert_text_indent(block, style_dict) ==
    IF ~("text-indent" \in DOMAIN style_dict /\ "lines" \in DOMAIN block) THEN Ok(block)
    ELSE
    LET norm == normalize_indent(style_dict["text-indent"])
        indent == norm.val
        b1 == Put(block, "indent", indent)
        lines == b1["lines"]
        moved == IF lines # <<>> /\ "bbox" \in DOMAIN lines[1]
                 THEN LET first_x0 == lines[1]["bbox"].x0 + indent
                      IN [i \in 1..Len(lines) |->
                            IF i = 1 THEN Put(lines[1], "bbox", [lines[1]["bbox"] EXCEPT !.x0 = first_x0])
                            ELSE IF indent < 0 /\ "bbox" \in DOMAIN lines[i]
                            THEN Put(lines[i], "bbox", [lines[i]["bbox"] EXCEPT !.x0 = first_x0 - indent])
                            ELSE lines[i]]
                 ELSE lines
        b2 == Put(b1, "lines", moved)
    IN IF norm.exc # "" THEN Raise(block, norm.exc)
       ELSE IF moved # <<>> /\ "bbox" \notin DOMAIN moved[1] THEN Raise(b2, "KeyError")
       ELSE Ok(Put(b2, "indent_settings",
                   [value |-> indent, original_x0 |-> IF moved # <<>> THEN moved[1]["bbox"].x0 ELSE 0]))

(* ------------------------------ list helpers --------------------------- *)
\* sep.join(parts)
RECURSIVE Join(_, _)
Join(parts, sep) ==
    IF parts = <<>> THEN <<>>
    ELSE IF Len(parts) = 1 THEN Head(parts)
    ELSE Head(parts) \o sep \o Join(Tail(parts), sep)

\* s.split(sep) for a one-character separator
RECURSIVE SplitOn(_, _, _)
SplitOn(s, sep, cur) ==
    IF s = <<>> THEN <<cur>>
    ELSE IF Head(s) = sep THEN <<cur>> \o SplitOn(Tail(s), sep, <<>>)
    ELSE SplitOn(Tail(s), sep, Append(cur, Head(s)))

\* round(a / b) for b > 0: Python rounds halves to the even neighbour
RoundDiv(a, b) ==
    LET q == a \div b
        r == a % b
    IN IF 2 * r < b THEN q
       ELSE IF 2 * r > b THEN q + 1
       ELSE IF q % 2 = 0 THEN q ELSE q + 1

Abs(x) == IF x < 0 THEN -x ELSE x

(* ------------------------------ text wrap ------------------------------ *)
\* the text of the lines, each followed by a space
RECURSIVE TextContent(_)
TextContent(lines) ==
    IF lines = <<>> THEN <<>>
    ELSE (IF "text" \in DOMAIN Head(lines) THEN Head(lines)["text"] \o <<" ">> ELSE <<>>) \o TextContent(Tail(lines))

WrappedLine(parts, sep, x0, width) == [text |-> Join(parts, sep), x0 |-> x0, width |-> width]

\* the wrapping loop of the modes normal (items are words, a trailing space is
\* measured with each) and break-word (items are characters): the lines it
\* appends; the line being filled when the items run out is not appended
RECURSIVE WrapLoop(_, _, _, _, _, _, _)
WrapLoop(items, words, current_line, current_width, width, x0, acc) ==
    IF items = <<>> THEN acc
    ELSE LET item == Head(items)
             w == get_text_width(IF words THEN item \o <<" ">> ELSE item)
             sep == IF words THEN <<" ">> ELSE <<>>
         IN IF current_width + w > width
            THEN WrapLoop(Tail(items), words, <<item>>, w, width, x0,
                          Append(acc, WrappedLine(current_line, sep, x0, current_width)))
            ELSE WrapLoop(Tail(items), words, Append(current_line, item), current_width + w, width, x0, acc)

RECURSIVE SumWordWidths(_)
SumWordWidths(words) ==
    IF words = <<>> THEN 0 ELSE get_text_width(Head(words) \o <<" ">>) + SumWordWidths(Tail(words))

\* the loop of the mode balance; target_width is total_width / optimal_lines
RECURSIVE BalanceLoop(_, _, _, _, _, _, _)
BalanceLoop(words, current_line, current_width, total_width, optimal_lines, x0, acc) ==
    IF words = <<>> THEN acc
    ELSE LET word == Head(words)
             w == get_text_width(word \o <<" ">>)
         IN IF Abs(optimal_lines * (current_width + w) - total_width) > Abs(optimal_lines * current_width - total_width)
            THEN BalanceLoop(Tail(words), <<word>>, w, total_width, optimal_lines, x0,
                             Append(acc, WrappedLine(current_line, <<" ">>, x0, current_width)))
            ELSE BalanceLoop(Tail(words), Append(current_line, word), current_width + w,
                             total_width, optimal_lines, x0, acc)

reinsert_text_wrap(block, style_dict) ==
    IF "overflow-wrap" \notin DOMAIN style_dict THEN Ok(block)
    ELSE
    LET mode == style_dict["overflow-wrap"]
        b1 == Put(block, "wrap", mode)
        text_content == IF "lines" \in DOMAIN b1 THEN TextContent(b1["lines"]) ELSE <<>>
    IN IF ~("lines" \in DOMAIN b1 /\ text_content # <<>> /\ "bbox" \in DOMAIN b1) THEN Ok(b1)
       ELSE
       LET bbox == b1["bbox"]
           width == bbox.width
           words == Split(text_content)
           chars == [i \in 1..Len(text_content) |-> <<text_content[i]>>]
           total_width == SumWordWidths(words)
       IN IF PyEq(mode, s_normal)
          THEN Ok(Put(b1, "lines", b1["lines"] \o WrapLoop(words, TRUE, <<>>, 0, width, bbox.x0, <<>>)))
          ELSE IF PyEq(mode, s_break_word)
          THEN Ok(Put(b1, "lines", b1["lines"] \o WrapLoop(chars, FALSE, <<>>, 0, width, bbox.x0, <<>>)))
          ELSE IF PyEq(mode, s_balance)
          THEN IF width = 0 THEN Raise(b1, "ZeroDivisionError")
               ELSE Ok(Put(b1, "lines",
                           b1["lines"] \o BalanceLoop(words, <<>>, 0, total_width,
                                                      Max(1, RoundDiv(total_width, width)), bbox.x0, <<>>)))
          ELSE Ok(b1)

(* ------------------------------ white space ---------------------------- *)
WhiteSpaceLine(line, mode) ==
    IF "text" \notin DOMAIN line THEN line
    ELSE
    LET text == line["text"]
        parts == SplitOn(text, "\n", <<>>)
        l1 == IF PyEq(mode, s_normal) THEN Put(line, "text", Join(Split(text), <<" ">>))
              ELSE IF PyEq(mode, s_nowrap) THEN Put(Put(line, "no_wrap", TRUE), "text", Join(Split(text), <<" ">>))
              ELSE IF PyEq(mode, s_pre_line)
              THEN Put(line, "text", Join([i \in 1..Len(parts) |-> Strip(parts[i])], <<" ">>))
              ELSE line
    IN Put(l1, "wrap", PyIn(mode, {s_normal, s_pre_wrap, s_pre_line, s_break_spaces}))

\* reinsert_white_space without the test for its key
reinsert_white_space_unguarded(block, style_dict) ==
    Ok(Put(block, "preserve_whitespace",
           PyIn(Get(style_dict, "white-space", PStr(s_normal)), {s_pre, s_pre_wrap, s_pre_line, s_break_spaces})))

reinsert_white_space(block, style_dict) ==
    IF "white-space" \notin DOMAIN style_dict THEN Ok(block)
    ELSE
    LET mode == style_dict["white-space"]
        b1 == Put(block, "preserve_whitespace", PyIn(mode, {s_pre, s_pre_wrap, s_pre_line, s_break_spaces}))
    IN IF "lines" \in DOMAIN b1
       THEN Ok(Put(b1, "lines", [i \in 1..Len(b1["lines"]) |-> WhiteSpaceLine(b1["lines"][i], mode)]))
       ELSE Ok(b1)

(* ------------------------------ text overflow -------------------------- *)
\* the first i in range(len(text)) with get_text_width(text[:i]) > available,
\* or -1 when the loop ends without one
FirstOverflow(text, available) ==
    LET hits == {i \in 0..(Len(text) - 1) : get_text_width(SubSeq(text, 1, i)) > available}
    IN IF hits = {} THEN -1 ELSE CHOOSE i \in hits : \A j \in hits : i <= j

\* text[:k] as Python slices it, a negative k counted from the end
Prefix(text, k) == SubSeq(text, 1, IF k >= 0 THEN Min(k, Len(text)) ELSE Max(0, Len(text) + k))

\* span n of the line gets the text and the measured width of it
SetSpanText(line, n, text) ==
    Put(line, "spans",
        [line["spans"] EXCEPT ![n] = Put(Put(line["spans"][n], "text", text), "bbox",
                                         [line["spans"][n]["bbox"] EXCEPT !.width = get_text_width(text)])])

\* the last span n is cut before the character i that no longer fits
CutLastAt(line, n, i) ==
    IF i = -1 THEN line ELSE SetSpanText(line, n, Prefix(line["spans"][n]["text"], i - 1) \o s_dots)

\* the last span is removed and the one before it, k, gets the ellipsis
DropLast(line, k) ==
    IF k = 0 THEN [line |-> Put(line, "spans", <<>>), exc |-> ""]
    ELSE IF "text" \notin DOMAIN line["spans"][k]
    THEN [line |-> Put(line, "spans", SubSeq(line["spans"], 1, k)), exc |-> "KeyError"]
    ELSE [line |-> SetSpanText(Put(line, "spans", SubSeq(line["spans"], 1, k)), k, line["spans"][k]["text"] \o s_dots),
          exc |-> ""]

\* the ellipsis step on one overflowing line of n spans, the spans before the
\* last being current_width wide: [line, exc]
EllipsisLast(line, n, current_width, ellipsis_width, max_width) ==
    IF "text" \notin DOMAIN line["spans"][n] THEN [line |-> line, exc |-> ""]
    ELSE IF current_width + ellipsis_width <= max_width
    THEN [line |-> CutLastAt(line, n, FirstOverflow(line["spans"][n]["text"],
                                                    max_width - current_width - ellipsis_width)),
          exc |-> ""]
    ELSE DropLast(line, n - 1)

EllipsisLine(line, max_width) ==
    IF line["spans"] = <<>> THEN [line |-> line, exc |-> "IndexError"]
    ELSE EllipsisLast(line, Len(line["spans"]), SumWidths(SubSeq(line["spans"], 1, Len(line["spans"]) - 1)),
                      get_text_width(s_dots), max_width)

\* the loop that keeps the spans that fit; under clip the first span that
\* does not fit is kept with the width that remains
RECURSIVE VisibleSpans(_, _, _, _)
VisibleSpans(spans, cumulative_width, max_width, mode) ==
    IF spans = <<>> THEN <<>>
    ELSE IF cumulative_width + Head(spans)["bbox"].width <= max_width
    THEN <<Head(spans)>> \o VisibleSpans(Tail(spans), cumulative_width + Head(spans)["bbox"].width, max_width, mode)
    ELSE IF PyEq(mode, s_clip) /\ max_width - cumulative_width > 0
    THEN <<Put(Head(spans), "bbox", [Head(spans)["bbox"] EXCEPT !.width = max_width - cumulative_width])>>
    ELSE <<>>

\* the line narrowed to max_width keeps its visible spans
ClipSpans(line, mode, max_width) ==
    IF "spans" \in DOMAIN line THEN Put(line, "spans", VisibleSpans(line["spans"], 0, max_width, mode)) ELSE line

\* the clipping that follows the ellipsis step unless that step raised
ClipLine(e, mode, max_width) ==
    IF e.exc # "" THEN e
    ELSE [line |-> ClipSpans(Put(e.line, "bbox", [e.line["bbox"] EXCEPT !.width = Min(@, max_width)]), mode, max_width),
          exc |-> ""]

\* one line of the loop over block["lines"]: [line, exc]
OverflowLine(line, mode, max_width) ==
    IF ~("bbox" \in DOMAIN line /\ line["bbox"].width > max_width) THEN [line |-> line, exc |-> ""]
    ELSE IF PyEq(mode, s_ellipsis) /\ "spans" \in DOMAIN line
    THEN ClipLine(EllipsisLine(line, max_width), mode, max_width)
    ELSE ClipLine([line |-> line, exc |-> ""], mode, max_width)

\* the loop over the lines, which an exception leaves half done
RECURSIVE OverflowLines(_, _, _)
OverflowRest(one, lines, mode, max_width) ==
    IF one.exc # "" THEN [lines |-> <<one.line>> \o Tail(lines), exc |-> one.exc]
    ELSE [lines |-> <<one.line>> \o OverflowLines(Tail(lines), mode, max_width).lines,
          exc |-> OverflowLines(Tail(lines), mode, max_width).exc]

OverflowLines(lines, mode, max_width) ==
    IF lines = <<>> THEN [lines |-> <<>>, exc |-> ""]
    ELSE OverflowRest(OverflowLine(Head(lines), mode, max_width), lines, mode, max_width)

\* block["overflow"] is set; the lines are clipped to the block's width
OverflowDone(block, done, mode) ==
    IF done.exc # "" THEN Raise(Put(block, "lines", done.lines), done.exc)
    ELSE Ok(Put(Put(block, "lines", done.lines), "overflow_settings", [mode |-> mode, applied |-> TRUE]))

reinsert_text_overflow(block, style_dict) ==
    IF ~("text-overflow" \in DOMAIN style_dict /\ "lines" \in DOMAIN block) THEN Ok(block)
    ELSE IF ~PyIn(style_dict["text-overflow"], {s_hidden, s_clip, s_ellipsis})
    THEN Ok(Put(Put(block, "overflow", style_dict["text-overflow"]), "overflow_settings",
                [mode |-> style_dict["text-overflow"], applied |-> TRUE]))
    ELSE IF "bbox" \notin DOMAIN block THEN Ok(Put(block, "overflow", style_dict["text-overflow"]))
    ELSE OverflowDone(Put(block, "overflow", style_dict["text-overflow"]),
                      OverflowLines(block["lines"], style_dict["text-overflow"], block["bbox"].width),
                      style_dict["text-overflow"])

(* ------------------------------ hyphenation ---------------------------- *)
Vowels == {"a", "e", "i", "o", "u"}
IsVowel(c) == c \in Vowels

\* length of the run of non-vowels that starts at position p of w (1-based)
RECURSIVE ConsonantRun(_, _)
ConsonantRun(w, p) == IF p <= Len(w) /\ ~IsVowel(w[p]) THEN 1 + ConsonantRun(w, p + 1) ELSE 0

\* match.end(1) of the successive matches of ([^aeiou])([aeiou])([^aeiou])
RECURSIVE ScanCVC(_, _)
ScanCVC(w, p) ==
    IF p + 2 > Len(w) THEN {}
    ELSE IF ~IsVowel(w[p]) /\ IsVowel(w[p + 1]) /\ ~IsVowel(w[p + 2])
    THEN {p} \cup ScanCVC(w, p + 3)
    ELSE ScanCVC(w, p + 1)

\* ... of ([aeiou])([^aeiou]{2,})
RECURSIVE ScanVCC(_, _)
ScanVCC(w, p) ==
    IF p > Len(w) THEN {}
    ELSE IF IsVowel(w[p]) /\ ConsonantRun(w, p + 1) >= 2
    THEN {p} \cup ScanVCC(w, p + 1 + ConsonantRun(w, p + 1))
    ELSE ScanVCC(w, p + 1)

\* ... of ([^aeiou]{2,})([aeiou])
RECURSIVE ScanCCV(_, _)
ScanCCV(w, p) ==
    IF p > Len(w) THEN {}
    ELSE LET r == ConsonantRun(w, p)
         IN IF r >= 2 /\ p + r <= Len(w)
            THEN {p + r - 1} \cup ScanCCV(w, p + r + 1)
            ELSE ScanCCV(w, p + 1)

\* the parts of word cut at the sorted positions (0-based offsets)
RECURSIVE CutAt(_, _, _)
CutAt(word, positions, last_pos) ==
    IF positions = {} THEN <<SubSeq(word, last_pos + 1, Len(word))>>
    ELSE LET pos == CHOOSE x \in positions : \A y \in positions : x <= y
         IN <<SubSeq(word, last_pos + 1, pos)>> \o CutAt(word, positions \ {pos}, pos)

\* Hyphenator.hyphenate
hyphenate(word) ==
    IF Len(word) < 4 THEN <<word>>
    ELSE LET w == Lower(word)
             found == ScanCVC(w, 1) \cup ScanVCC(w, 1) \cup ScanCCV(w, 1)
             positions == {pos \in found : pos > 1 /\ pos < Len(word) - 2}
         IN IF positions = {} THEN <<word>> ELSE CutAt(word, positions, 0)

\* the first j in range(len(parts) - 1) whose hyphenated head still fits, or -1
FirstFit(parts, current_width, available_width) ==
    LET fits == {j \in 0..(Len(parts) - 2) :
                    current_width + get_text_width(Join(SubSeq(parts, 1, j + 1), <<"-">>) \o <<"-">>) <= available_width}
    IN IF fits = {} THEN -1 ELSE CHOOSE j \in fits : \A k \in fits : j <= k

\* the loop over the words of line i: the lines as it leaves them
RECURSIVE HyphenWords(_, _, _, _, _, _)
HyphenWords(words, current_line, current_width, available_width, i, lines) ==
    IF words = <<>> THEN lines
    ELSE
    LET word == Head(words)
        word_width == get_text_width(word \o <<" ">>)
    IN IF current_width + word_width > available_width
       THEN LET parts == hyphenate(word)
                j == IF Len(parts) > 1 THEN FirstFit(parts, current_width, available_width) ELSE -1
            IN IF j = -1 THEN HyphenWords(Tail(words), current_line, current_width, available_width, i, lines)
               ELSE
               LET partial == Join(SubSeq(parts, 1, j + 1), <<"-">>) \o <<"-">>
                   filled == Append(current_line, partial)
                   remainder == Join(SubSeq(parts, j + 2, Len(parts)), <<>>)
                   l1 == [lines EXCEPT ![i] = Put(@, "text", Join(filled, <<" ">>))]
                   l2 == IF i + 1 <= Len(l1)
                         THEN [l1 EXCEPT ![i + 1] = Put(@, "text", remainder \o <<" ">> \o Get(@, "text", s_empty))]
                         ELSE Append(l1, [text |-> remainder, bbox |-> l1[i]["bbox"]])
               IN HyphenWords(Tail(words), filled, current_width, available_width, i, l2)
       ELSE HyphenWords(Tail(words), Append(current_line, word), current_width + word_width, available_width, i, lines)

\* the loop over block["lines"], which also visits the lines it appends
RECURSIVE HyphenLines(_, _)
HyphenLines(lines, i) ==
    IF i > Len(lines) THEN lines
    ELSE LET line == lines[i]
         IN IF "text" \in DOMAIN line /\ "bbox" \in DOMAIN line
               /\ get_text_width(line["text"]) > line["bbox"].width
            THEN HyphenLines(HyphenWords(Split(line["text"]), <<>>, 0, line["bbox"].width, i, lines), i + 1)
            ELSE HyphenLines(lines, i + 1)

reinsert_hyphenation(block, style_dict) ==
    IF "hyphens" \notin DOMAIN style_dict THEN Ok(block)
    ELSE
    LET mode == style_dict["hyphens"]
        b1 == Put(block, "hyphenation", mode)
    IN IF ~PyEq(mode, s_none) /\ "lines" \in DOMAIN b1
       THEN Ok(Put(b1, "lines", HyphenLines(b1["lines"], 1)))
       ELSE Ok(b1)

(* ------------------------------ the nodes edited ----------------------- *)
\* a rectangle of the document model: its corners and its two extents
Rect(x0, y0, x1, y1) == [x0 |-> x0, y0 |-> y0, x1 |-> x1, y1 |-> y1, width |-> x1 - x0, height |-> y1 - y0]

SpanBox == Rect(10 * Unit, 20 * Unit, 30 * Unit, 32 * Unit)

InitSpans ==
    { \* upright Times with its text and box
      [kind |-> "span", flags |-> 0, font |-> s_times, size |-> 12 * Unit, text |-> s_aB_c, bbox |-> SpanBox],
      \* italic by its flag
      [kind |-> "span", flags |-> 1, font |-> s_helvetica, size |-> 10 * Unit, text |-> s_Hi],
      \* bold and italic by its font name only
      [kind |-> "span", flags |-> 0, font |-> s_Times_BoldItalic, size |-> 12 * Unit],
      \* every flag bit set, no font
      [kind |-> "span", flags |-> 255, text |-> s_aB_c] }

\* a span of a line: its text set in 12pt at x0..x1 of the text row that
\* starts at y0
Word(text, x0, x1, y0) ==
    [text |-> text, size |-> 12 * Unit, flags |-> 0, font |-> s_helv,
     bbox |-> Rect(x0 * Unit, y0 * Unit, x1 * Unit, (y0 + 12) * Unit)]

TwoWords == <<Word(s_Hi, 0, 30, 0), Word(s_aB_c, 30, 60, 0)>>

\* spans whose boxes are as wide as get_text_width measures their texts
ThreeMeasured == <<Word(s_Hi, 0, 12, 0), Word(s_aB_c, 12, 34, 0), Word(s_Hi, 34, 46, 0)>>
TwoMeasured == <<Word(s_Hi, 0, 12, 14), Word(s_an_example, 12, 62, 14)>>

InitBlocks ==
    { \* a short line of two words in a wide block
      [kind |-> "block", bbox |-> Rect(0, 0, 100 * Unit, 30 * Unit),
       lines |-> <<[bbox |-> Rect(0, 0, 60 * Unit, 12 * Unit), spans |-> TwoWords]>>],
      \* the same line in a block narrower than it, and a second line that fits
      [kind |-> "block", bbox |-> Rect(0, 0, 50 * Unit, 30 * Unit),
       lines |-> <<[bbox |-> Rect(0, 0, 60 * Unit, 12 * Unit), spans |-> TwoWords],
                   [bbox |-> Rect(0, 14 * Unit, 30 * Unit, 26 * Unit), spans |-> <<Word(s_Hi, 0, 30, 14)>>]>>],
      \* a line given by its text, wider than its box
      [kind |-> "block", bbox |-> Rect(0, 0, 30 * Unit, 12 * Unit),
       lines |-> <<[bbox |-> Rect(0, 0, 30 * Unit, 12 * Unit), text |-> s_an_example]>>],
      \* two lines wider than their block, every span as wide as its text measures
      [kind |-> "block", bbox |-> Rect(0, 0, 40 * Unit, 30 * Unit),
       lines |-> <<[bbox |-> Rect(0, 0, 46 * Unit, 12 * Unit), spans |-> ThreeMeasured],
                   [bbox |-> Rect(0, 14 * Unit, 62 * Unit, 26 * Unit), spans |-> TwoMeasured]>>],
      \* a block without lines or box
      [kind |-> "block"] }

(* ------------------------------ the style maps ------------------------- *)
\* a style map that carries none of the keys a handler is driven by
OtherStyle == "color" :> PStr(s_black)

\* the style maps a handler is called with: the key absent, or present with
\* one of the values
StyleMaps(key, values) == {OtherStyle} \cup {OtherStyle @@ (key :> v) : v \in values}

BoldValues == {PStr(s_bold), PStr(s_normal), PInt(700)}
FontWeightValues == {PStr(s_bold), PStr(s_normal), PInt(700), PFloat(40050), PNone}
ItalicValues == {PStr(s_italic), PStr(s_normal)}
FontStyleValues == {PStr(s_italic), PStr(s_normal), PNone}
DecorationValues == {PStr(s_underline), PStr(s_underline_dashed), PStr(s_none), PNone}
DashedValues == {PStr(s_solid), PStr(s_dashed), PNone}
DoubleValues == {PStr(s_double), PStr(s_solid)}
FontVariantValues == {PStr(s_small_caps), PStr(s_normal)}
VerticalAlignValues == {PStr(s_baseline), PStr(s_sub), PStr(s_super), PStr(s_middle)}
FontFamilyValues == {PStr(s_arial), PStr(s_Times_New_Roman)}
FontSizeValues == {PStr(s_14pt), PInt(0), PStr(s_abc), PNone}
LetterSpacingValues == {PStr(s_2px), PStr(s_abc)}
TextTransformValues == {PStr(s_uppercase), PStr(s_capitalize)}
WritingModeValues == {PStr(s_vertical_rl), PStr(s_horizontal_tb)}
FontSmoothValues == {PStr(s_antialiased)}
WordSpacingValues == {PStr(s_2px), PStr(s_abc), PNone}
LineHeightValues == {PFloat(150), PStr(s_150pct), PStr(s_abc)}
TextAlignValues == {PStr(s_left), PStr(s_center), PStr(s_right), PStr(s_justify)}
TextJustifyValues == {PStr(s_inter_word), PStr(s_inter_character), PStr(s_auto)}
TextIndentValues == {PStr(s_2px), PStr(s_m1pt), PStr(s_abc)}
OverflowWrapValues == {PStr(s_normal), PStr(s_break_word), PStr(s_balance), PStr(s_anywhere)}
TextOverflowValues == {PStr(s_ellipsis), PStr(s_clip), PStr(s_hidden), PStr(s_visible)}
WhiteSpaceValues == {PStr(s_normal), PStr(s_nowrap), PStr(s_pre_line), PStr(s_pre)}
HyphensValues == {PStr(s_auto), PStr(s_none)}

(* ------------------------------ the state machine ---------------------- *)
\* node: the span or block being edited; prev: the node before the last call;
\* op: the last call (handler and style map); prevOp: the call before it;
\* res: the exception that ended the last call, "" when it returned;
\* steps: the number of calls made.
NoOp == [name |-> "none", sd |-> OtherStyle]

\* arg, ret: the argument handed to a function that is called alone, and
\* what it returned; doc, ocr: the document process_pdf works on and the
\* position of its loops.  Each part of the program that is not running
\* stays in the state described here.
NotCalled == [done |-> FALSE, val |-> <<>>]
Result(v) == [done |-> TRUE, val |-> v]
NoCall == arg = <<>> /\ ret = NotCalled
NoDocument == doc = <<>> /\ ocr = [pc |-> "none"]

\* the session manager and the requests: sessions, the files on disk, the
\* requests being handled, the clock and the number of ids handed out
web == <<sessions, files, calls, now, uuids>>

NoSession == sessions = <<>> /\ files = <<>> /\ calls = <<>> /\ now = 0 /\ uuids = 0
NoFont == fontIn = s_empty /\ variants = EmptyDict
NoNode ==
    /\ node = [kind |-> "span"]
    /\ prev = node
    /\ op = NoOp
    /\ prevOp = NoOp
    /\ res = ""
    /\ steps = 0

Init ==
    /\ node \in InitSpans \cup InitBlocks
    /\ prev = node
    /\ op = NoOp
    /\ prevOp = NoOp
    /\ res = ""
    /\ steps = 0
    /\ NoFont
    /\ NoCall
    /\ NoDocument
    /\ NoSession

\* one call handler(pdf_writer, node, style_dict): the caller's dict is
\* mutated in place, also when the call ends with an exception
Call(name, sd, out) ==
    /\ steps < MaxSteps
    /\ res = ""
    /\ prev' = node
    /\ node' = out.node
    /\ res' = out.exc
    /\ op' = [name |-> name, sd |-> sd]
    /\ prevOp' = op
    /\ steps' = steps + 1
    /\ UNCHANGED <<fontIn, variants, arg, ret, doc, ocr, web>>

IsSpan == node.kind = "span"
IsBlock == node.kind = "block"

ReinsertBold == IsSpan /\ \E sd \in StyleMaps("font-weight", BoldValues) : Call("reinsert_bold", sd, reinsert_bold(node, sd))
ReinsertFontWeight == IsSpan /\ \E sd \in StyleMaps("font-weight", FontWeightValues) : Call("reinsert_font_weight", sd, reinsert_font_weight(node, sd))
ReinsertItalic == IsSpan /\ \E sd \in StyleMaps("font-style", ItalicValues) : Call("reinsert_italic", sd, reinsert_italic(node, sd))
ReinsertFontStyle == IsSpan /\ \E sd \in StyleMaps("font-style", FontStyleValues) : Call("reinsert_font_style", sd, reinsert_font_style(node, sd))
ReinsertUnderline == IsSpan /\ \E sd \in StyleMaps("text-decoration", DecorationValues) : Call("reinsert_underline", sd, reinsert_underline(node, sd))
ReinsertDashedUnderline == IsSpan /\ \E sd \in StyleMaps("text-decoration-style", DashedValues) : Call("reinsert_dashed_underline", sd, reinsert_dashed_underline(node, sd))
ReinsertDoubleUnderline == IsSpan /\ \E sd \in StyleMaps("text-decoration-style", DoubleValues) : Call("reinsert_double_underline", sd, reinsert_double_underline(node, sd))
ReinsertSmallCaps == IsSpan /\ \E sd \in StyleMaps("font-variant", FontVariantValues) : Call("reinsert_small_caps", sd, reinsert_small_caps(node, sd))
ReinsertVerticalAlign == IsSpan /\ \E sd \in StyleMaps("vertical-align", VerticalAlignValues) : Call("reinsert_vertical_align", sd, reinsert_vertical_align(node, sd))
ReinsertFontFamily == IsSpan /\ \E sd \in StyleMaps("font-family", FontFamilyValues) : Call("reinsert_font_family", sd, reinsert_font_family(node, sd))
ReinsertFontSize == IsSpan /\ \E sd \in StyleMaps("font-size", FontSizeValues) : Call("reinsert_font_size", sd, reinsert_font_size(node, sd))
ReinsertLetterSpacing == IsSpan /\ \E sd \in StyleMaps("letter-spacing", LetterSpacingValues) : Call("reinsert_letter_spacing", sd, reinsert_letter_spacing(node, sd))
ReinsertTextTransform == IsSpan /\ \E sd \in StyleMaps("text-transform", TextTransformValues) : Call("reinsert_text_transform", sd, reinsert_text_transform(node, sd))
ReinsertTextDirection == IsSpan /\ \E sd \in StyleMaps("writing-mode", WritingModeValues) : Call("reinsert_text_direction", sd, reinsert_text_direction(node, sd))
ReinsertFontSmoothing == IsSpan /\ \E sd \in StyleMaps("font-smooth", FontSmoothValues) : Call("reinsert_font_smoothing", sd, reinsert_font_smoothing(node, sd))
ReinsertWordSpacing == IsBlock /\ \E sd \in StyleMaps("word-spacing", WordSpacingValues) : Call("reinsert_word_spacing", sd, reinsert_word_spacing(node, sd))
ReinsertLineHeight == IsBlock /\ \E sd \in StyleMaps("line-height", LineHeightValues) : Call("reinsert_line_height", sd, reinsert_line_height(node, sd))
ReinsertTextAlign == IsBlock /\ \E sd \in StyleMaps("text-align", TextAlignValues) : Call("reinsert_text_align", sd, reinsert_text_align(node, sd))
ReinsertTextJustify == IsBlock /\ \E sd \in StyleMaps("text-justify", TextJustifyValues) : Call("reinsert_text_justify", sd, reinsert_text_justify(node, sd))
ReinsertTextIndent == IsBlock /\ \E sd \in StyleMaps("text-indent", TextIndentValues) : Call("reinsert_text_indent", sd, reinsert_text_indent(node, sd))
ReinsertTextWrap == IsBlock /\ \E sd \in StyleMaps("overflow-wrap", OverflowWrapValues) : Call("reinsert_text_wrap", sd, reinsert_text_wrap(node, sd))
ReinsertTextOverflow == IsBlock /\ \E sd \in StyleMaps("text-overflow", TextOverflowValues) : Call("reinsert_text_overflow", sd, reinsert_text_overflow(node, sd))
ReinsertWhiteSpace == IsBlock /\ \E sd \in StyleMaps("white-space", WhiteSpaceValues) : Call("reinsert_white_space", sd, reinsert_white_space(node, sd))
ReinsertHyphenation == IsBlock /\ \E sd \in StyleMaps("hyphens", HyphensValues) : Call("reinsert_hyphenation", sd, reinsert_hyphenation(node, sd))

Next ==
    \/ ReinsertBold
    \/ ReinsertFontWeight
    \/ ReinsertItalic
    \/ ReinsertFontStyle
    \/ ReinsertUnderline
    \/ ReinsertDashedUnderline
    \/ ReinsertDoubleUnderline
    \/ ReinsertSmallCaps
    \/ ReinsertVerticalAlign
    \/ ReinsertFontFamily
    \/ ReinsertFontSize
    \/ ReinsertLetterSpacing
    \/ ReinsertTextTransform
    \/ ReinsertTextDirection
    \/ ReinsertFontSmoothing
    \/ ReinsertWordSpacing
    \/ ReinsertLineHeight
    \/ ReinsertTextAlign
    \/ ReinsertTextJustify
    \/ ReinsertTextIndent
    \/ ReinsertTextWrap
    \/ ReinsertTextOverflow
    \/ ReinsertWhiteSpace
    \/ ReinsertHyphenation

Spec == Init /\ [][Next]_vars

(* ------------------------------ the font resolver alone ---------------- *)
\* font names a caller hands to get_font_variant
FontNames ==
    {s_helvetica, s_times, s_courier, s_arial, s_georgia, s_consolas, s_Georgia, s_Times_Bold, s_Times_Italic,
     s_Helvetica_Oblique, s_sp_times_sp, s_Courier_New, s_Times_New_Roman, s_Arial_Black, s_Futura, s_tirob}

InitFont ==
    /\ NoNode
    /\ fontIn \in FontNames
    /\ variants = EmptyDict
    /\ NoCall
    /\ NoDocument
    /\ NoSession

\* one call get_font_variant(fontIn, bold, italic), its result kept under the
\* style asked for
Resolve ==
    \E bold \in BOOLEAN, italic \in BOOLEAN :
        /\ variants' = Put(variants, VariantStyle(bold, italic), get_font_variant(fontIn, bold, italic))
        /\ UNCHANGED <<node, prev, op, prevOp, res, steps, fontIn, arg, ret, doc, ocr, web>>

NextFont == Resolve

SpecFont == InitFont /\ [][NextFont]_vars

(* ============================ OCR word grouping ======================== *)
\* fitz.Rect(x0, y0, x1, y1) | fitz.Rect(...): the smallest rectangle that
\* holds both, for rectangles that are not empty
RectUnion(a, b) == Rect(Min(a.x0, b.x0), Min(a.y0, b.y0), Max(a.x1, b.x1), Max(a.y1, b.y1))

\* entry i of the engine's columns text, conf, block_num, left, top, width,
\* height; conf is counted in 1/Unit
OcrWord(text, conf, block_num, left, width) ==
    [text |-> text, conf |-> conf, block_num |-> block_num, left |-> left, top |-> 0, width |-> width, height |-> 12]

WordRect(w) == Rect(w.left, w.top, w.left + w.width, w.top + w.height)

\* conf < 30
LowConfidence_inclusive(conf) == conf <= 30 * Unit
LowConfidence(conf) == conf < 30 * Unit

\* the word is skipped by one of the two `continue`
Skipped(w) == Strip(w.text) = <<>> \/ LowConfidence(w.conf)

\* current_block is None or current_block['number'] != block_num; current is
\* <<>> for None
StartsBlock_first_only(current, block_num) == current = <<>>
StartsBlock(current, block_num) == current = <<>> \/ current[1].number # block_num

NewBlock(w) == [number |-> w.block_num, bbox |-> WordRect(w), text |-> Strip(w.text), lines |-> <<>>]
Extended(b, w) == [b EXCEPT !.text = @ \o s_sp \o Strip(w.text), !.bbox = RectUnion(@, WordRect(w))]

\* the loop over the entries and the flush of the block still open
RECURSIVE ConvertLoop(_, _, _)
ConvertLoop(words, blocks, current) ==
    IF words = <<>> THEN blocks \o current
    ELSE IF Skipped(Head(words)) THEN ConvertLoop(Tail(words), blocks, current)
    ELSE IF StartsBlock(current, Head(words).block_num)
    THEN ConvertLoop(Tail(words), blocks \o current, <<NewBlock(Head(words))>>)
    ELSE ConvertLoop(Tail(words), blocks, <<Extended(current[1], Head(words))>>)

_convert_to_blocks(ocr_data) == ConvertLoop(ocr_data, <<>>, <<>>)

\* the word lists the engine hands over: a word, a word to strip and a blank
\* entry, each with its own box, at three confidences in two engine blocks
OcrWords ==
    { OcrWord(tb[1], conf * Unit, bn, tb[2], tb[3]) :
        tb \in {<<s_Hi, 0, 12>>, <<s_sp_c_sp, 30, 5>>, <<s_sp, 50, 5>>}, conf \in {29, 30, 100}, bn \in {1, 2} }

RECURSIVE SeqsUpTo(_, _)
SeqsUpTo(S, n) == IF n = 0 THEN {<<>>} ELSE SeqsUpTo(S, n - 1) \cup {Append(q, x) : q \in SeqsUpTo(S, n - 1), x \in S}

InitWords ==
    /\ NoNode
    /\ NoFont
    /\ NoDocument
    /\ NoSession
    /\ arg \in SeqsUpTo(OcrWords, MaxWords)
    /\ ret = NotCalled

ConvertToBlocks ==
    /\ ~ret.done
    /\ ret' = Result(_convert_to_blocks(arg))
    /\ UNCHANGED <<node, prev, op, prevOp, res, steps, fontIn, variants, arg, doc, ocr, web>>

NextWords == ConvertToBlocks

SpecWords == InitWords /\ [][NextWords]_vars
(* ============================ post-OCR cleanup ========================= *)
Uppers == {UpperChars[i] : i \in 1..Len(UpperChars)}
Lowers == {LowerChars[i] : i \in 1..Len(LowerChars)}
Digits == {DigitChars[i] : i \in 1..Len(DigitChars)}

\* one piece of a replacement template: a literal character, or a reference
\* \k to group k of the pattern
Lit(c) == [lit |-> c, ref |-> 0]
Grp(k) == [lit |-> "", ref |-> k]

\* the template expanded for the match m; groups[k] is the position in the
\* match of the character that group k holds
Expand(tpl, groups, m) == [i \in 1..Len(tpl) |-> IF tpl[i].ref = 0 THEN tpl[i].lit ELSE m[groups[tpl[i].ref]]]

\* the template refers to a group the pattern does not have: re.sub raises
\* re.error when it compiles the template, whether or not the text matches
InvalidTemplate(rule) == \E i \in 1..Len(rule.tpl) : rule.tpl[i].ref > Len(rule.groups)

\* re.sub(pattern, replacement, s) for a pattern of one character class per
\* position: matches are taken from left to right and do not overlap
RECURSIVE ReSub(_, _)
ReSub(s, rule) ==
    IF s = <<>> THEN <<>>
    ELSE IF Len(s) >= Len(rule.pat) /\ \A i \in 1..Len(rule.pat) : s[i] \in rule.pat[i]
    THEN Expand(rule.tpl, rule.groups, SubSeq(s, 1, Len(rule.pat))) \o ReSub(SubSeq(s, Len(rule.pat) + 1, Len(s)), rule)
    ELSE <<Head(s)>> \o ReSub(Tail(s), rule)

\* re.sub(r'\s+', ' ', s)
RECURSIVE CollapseSpace(_)
CollapseSpace(s) ==
    IF s = <<>> THEN <<>>
    ELSE IF Head(s) \in SpaceChars THEN <<" ">> \o CollapseSpace(LStrip(s))
    ELSE <<Head(s)>> \o CollapseSpace(Tail(s))

\* the replacements dict, in the order of its items.  In a template a
\* backslash followed by two digits is one group number: r'\11' is group 11.
Replacements ==
    << [pat |-> <<{"l"}, Uppers>>,         groups |-> <<2>>,    tpl |-> <<Lit("I"), Grp(1)>>],
       [pat |-> <<Digits, {"l"}>>,         groups |-> <<1>>,    tpl |-> <<Grp(11)>>],
       [pat |-> <<Uppers, {"1"}>>,         groups |-> <<1>>,    tpl |-> <<Grp(1), Lit("l")>>],
       [pat |-> <<{"0"}, Uppers>>,         groups |-> <<2>>,    tpl |-> <<Lit("O"), Grp(1)>>],
       [pat |-> <<Uppers, {"0"}>>,         groups |-> <<1>>,    tpl |-> <<Grp(1), Lit("O")>>],
       [pat |-> <<Lowers, {"/"}, Lowers>>, groups |-> <<1, 3>>, tpl |-> <<Grp(1), Lit("l"), Grp(2)>>],
       [pat |-> <<{"r"}, {"n"}>>,          groups |-> <<>>,     tpl |-> <<Lit("m")>>],
       [pat |-> <<Uppers, {"5"}>>,         groups |-> <<1>>,    tpl |-> <<Grp(1), Lit("S")>>] >>

\* the loop over replacements.items() from item k on: [text, exc]
RECURSIVE ApplyReplacements(_, _)
ApplyReplacements(text, k) ==
    IF k > Len(Replacements) THEN [text |-> Strip(text), exc |-> ""]
    ELSE IF InvalidTemplate(Replacements[k]) THEN [text |-> text, exc |-> "re.error"]
    ELSE ApplyReplacements(ReSub(text, Replacements[k]), k + 1)

clean_ocr_text(text) == ApplyReplacements(CollapseSpace(text), 1)

\* list.index(x): the first position (from 0) of an item equal to x
ListIndex(lines, x) == (CHOOSE i \in 1..Len(lines) : lines[i] = x /\ \A j \in 1..(i - 1) : lines[j] # x) - 1

\* the line the code takes for the one that follows `line`: <<>> for None
NextLineOf(lines, line) ==
    IF ListIndex(lines, line) < Len(lines) - 1 THEN <<lines[ListIndex(lines, line) + 2]>> ELSE <<>>

\* the line without its text: {k: v for k, v in line.items() if k != "text"}
OtherItems(line) == [k \in (DOMAIN line) \ {"text"} |-> line[k]]
Finalized(line, text) == Put(OtherItems(line), "text", text)

\* the loop over block["lines"], line pos being the next one: the fixed lines
\* and the exception that ended the loop
RECURSIVE FixLoop(_, _, _, _)
FixNotHyphen(lines, pos, fixed, current_line, text, next_line) ==
    IF ~(EndsWith(text, <<".">>) \/ EndsWith(text, <<"!">>) \/ EndsWith(text, <<"?">>))
       /\ next_line # <<>> /\ DOMAIN next_line[1] # {} /\ "text" \in DOMAIN next_line[1]
    THEN IF next_line[1]["text"] = <<>> THEN [lines |-> fixed, exc |-> "IndexError"]
         ELSE IF next_line[1]["text"][1] \in Lowers
         THEN FixLoop(lines, pos + 1, fixed, current_line \o text \o s_sp)
         ELSE FixLoop(lines, pos + 1, Append(fixed, Finalized(lines[pos], current_line \o text)), <<>>)
    ELSE FixLoop(lines, pos + 1, Append(fixed, Finalized(lines[pos], current_line \o text)), <<>>)

FixLoop(lines, pos, fixed, current_line) ==
    IF pos > Len(lines)
    THEN [lines |-> IF current_line # <<>> THEN Append(fixed, [text |-> current_line]) ELSE fixed, exc |-> ""]
    ELSE IF "text" \notin DOMAIN lines[pos] THEN FixLoop(lines, pos + 1, fixed, current_line)
    ELSE IF EndsWith(lines[pos]["text"], s_dash)
    THEN FixLoop(lines, pos + 1, fixed, current_line \o SubSeq(lines[pos]["text"], 1, Len(lines[pos]["text"]) - 1))
    ELSE FixNotHyphen(lines, pos, fixed, current_line, lines[pos]["text"], NextLineOf(lines, lines[pos]))

\* the blocks from position k on: [node |-> blocks, exc]; a block whose loop
\* raised keeps its lines, the blocks after it are not reached
RECURSIVE FixBlocks(_, _)
FixBlock(blocks, k, fx) ==
    IF fx.exc # "" THEN Raise(blocks, fx.exc)
    ELSE FixBlocks([blocks EXCEPT ![k] = Put(@, "lines", fx.lines)], k + 1)

FixBlocks(blocks, k) ==
    IF k > Len(blocks) THEN Ok(blocks)
    ELSE IF "lines" \notin DOMAIN blocks[k] THEN FixBlocks(blocks, k + 1)
    ELSE FixBlock(blocks, k, FixLoop(blocks[k]["lines"], 1, <<>>, <<>>))

fix_line_breaks(blocks) == FixBlocks(blocks, 1)

\* the lines of a block handed to fix_line_breaks: the two halves of a
\* hyphenated word, a lowercase line (with and without its box) and a sentence
OcrLines ==
    { [text |-> s_exam_], [text |-> s_ple_text], [text |-> s_a], [text |-> s_B_dot],
      [text |-> s_a, bbox |-> Rect(0, 0, 5, 12)] }

InitLines ==
    /\ NoNode
    /\ NoFont
    /\ NoDocument
    /\ NoSession
    /\ arg \in {<<[text |-> s_empty, lines |-> ls]>> : ls \in SeqsUpTo(OcrLines, MaxLines)}
    /\ ret = NotCalled

FixLineBreaks ==
    /\ ~ret.done
    /\ ret' = Result(fix_line_breaks(arg))
    /\ UNCHANGED <<node, prev, op, prevOp, res, steps, fontIn, variants, arg, doc, ocr, web>>

NextLines == FixLineBreaks

SpecLines == InitLines /\ [][NextLines]_vars
(* ============================ OCR of a document ======================== *)
\* An embedded image as the libraries answer for it: whether the document
\* hands out its pixels (extract), whether the pixmap conversion of
\* prepare_page_for_ocr succeeds (prepare), whether the engine returns
\* (engine), and the entries the engine returns for it (words).
OcrImage(extract, prepare, engine, words) ==
    [extract |-> extract, prepare |-> prepare, engine |-> engine, words |-> words]

ImageWithText == OcrImage(TRUE, TRUE, TRUE, <<OcrWord(s_Hi, 100 * Unit, 1, 0, 12)>>)
ImageTooFaint == OcrImage(TRUE, TRUE, TRUE, <<OcrWord(s_Hi, 29 * Unit, 1, 0, 12)>>)
ImageUnprepared == OcrImage(TRUE, FALSE, TRUE, <<>>)
ImageEngineFails == OcrImage(TRUE, TRUE, FALSE, <<>>)
ImageUnreadable == OcrImage(FALSE, TRUE, TRUE, <<>>)

\* the pages of a document: page.get_text() and page.get_images()
OcrPage(text, images) == [text |-> text, images |-> images]

OcrPages ==
    { OcrPage(s_Hi, <<ImageWithText>>),
      OcrPage(s_sp, <<>>),
      OcrPage(s_empty, <<ImageWithText>>),
      OcrPage(s_sp, <<ImageUnprepared, ImageTooFaint>>),
      OcrPage(s_empty, <<ImageUnreadable, ImageEngineFails>>),
      OcrPage(s_empty, <<ImageUnreadable>>) }

\* needs_ocr: the loop over the pages from page k on
RECURSIVE NeedsOcrFrom(_, _)
NeedsOcrFrom_any_image(pages, k) ==
    IF k > Len(pages) THEN FALSE
    ELSE IF pages[k].images # <<>> THEN TRUE
    ELSE NeedsOcrFrom(pages, k + 1)
NeedsOcrFrom(pages, k) ==
    IF k > Len(pages) THEN FALSE
    ELSE IF Strip(pages[k].text) # <<>> THEN NeedsOcrFrom(pages, k + 1)
    ELSE IF pages[k].images # <<>> THEN TRUE
    ELSE NeedsOcrFrom(pages, k + 1)

needs_ocr(pages) == NeedsOcrFrom(pages, 1)

\* _extract_images: an image whose extraction raises or returns nothing is
\* left out
_extract_images(page) == SelectSeq(page.images, LAMBDA im : im.extract)

\* the loop `for block in blocks: block["text"] = clean_ocr_text(...)`
RECURSIVE CleanBlocks(_, _)
CleanBlock(blocks, k, cleaned) ==
    IF cleaned.exc # "" THEN Raise(blocks, cleaned.exc)
    ELSE CleanBlocks([blocks EXCEPT ![k] = Put(@, "text", cleaned.text)], k + 1)
CleanBlocks(blocks, k) ==
    IF k > Len(blocks) THEN Ok(blocks)
    ELSE IF "text" \notin DOMAIN blocks[k] THEN CleanBlocks(blocks, k + 1)
    ELSE CleanBlock(blocks, k, clean_ocr_text(blocks[k]["text"]))

\* _process_image: what it returns (blocks, when none is FALSE) and the stages
\* it went through; every exception is caught and None returned
NoBlocks(stages) == [none |-> TRUE, blocks |-> <<>>, stages |-> stages]
Repaired(fixed, stages) ==
    IF fixed.exc # "" THEN NoBlocks(stages) ELSE [none |-> FALSE, blocks |-> fixed.node, stages |-> stages]
Cleaned(cleaned, stages) ==
    IF cleaned.exc # "" THEN NoBlocks(stages)
    ELSE Repaired(fix_line_breaks(cleaned.node), stages \o <<"RepairLines">>)

_process_image(image) ==
    IF ~image.prepare THEN NoBlocks(<<"Preprocess">>)
    ELSE IF ~image.engine THEN NoBlocks(<<"Preprocess", "Recognize">>)
    ELSE Cleaned(CleanBlocks(_convert_to_blocks(image.words), 1),
                 <<"Preprocess", "Recognize", "Filter", "GroupIntoBlocks", "Clean">>)

\* _insert_text: one text per block on the page
_insert_text(inserted, page_num, blocks) ==
    inserted \o [i \in 1..Len(blocks) |-> [page |-> page_num, text |-> blocks[i]["text"]]]

\* doc: the pages of the uploaded document.  ocr: where the upload is (pc),
\* the page and image loops of process_pdf (page_num, images, img), its flag
\* modified, the images handed to _process_image with their stages (log),
\* the texts inserted, whether the document was saved and what process_pdf
\* returned.
InitOcr ==
    /\ NoNode
    /\ NoFont
    /\ NoCall
    /\ NoSession
    /\ doc \in SeqsUpTo(OcrPages, MaxPages) \ {<<>>}
    /\ ocr = [pc |-> "upload", page_num |-> 1, images |-> <<>>, img |-> 1, modified |-> FALSE,
              log |-> <<>>, inserted |-> <<>>, saved |-> FALSE, result |-> "none"]

OcrStep(next) ==
    /\ ocr' = next
    /\ UNCHANGED <<node, prev, op, prevOp, res, steps, fontIn, variants, arg, doc, web>>

\* upload: process_pdf is called when needs_ocr says so
NeedsOcr ==
    /\ ocr.pc = "upload"
    /\ ret' = Result(needs_ocr(doc))
    /\ OcrStep([ocr EXCEPT !.pc = IF needs_ocr(doc) THEN "page" ELSE "done"])

\* a page that already has text is skipped
SkipPage ==
    /\ ocr.pc = "page"
    /\ ocr.page_num <= Len(doc)
    /\ Strip(doc[ocr.page_num].text) # <<>>
    /\ OcrStep([ocr EXCEPT !.page_num = @ + 1])
    /\ UNCHANGED ret

\* the images of a page without text; a page without images is left
ExtractImages ==
    /\ ocr.pc = "page"
    /\ ocr.page_num <= Len(doc)
    /\ Strip(doc[ocr.page_num].text) = <<>>
    /\ IF _extract_images(doc[ocr.page_num]) = <<>>
       THEN OcrStep([ocr EXCEPT !.page_num = @ + 1])
       ELSE OcrStep([ocr EXCEPT !.pc = "image", !.images = _extract_images(doc[ocr.page_num]), !.img = 1])
    /\ UNCHANGED ret

\* one round of `for img_info in images`: the blocks of the image are
\* inserted when there are any
AfterImage(o) ==
    IF o.img < Len(o.images) THEN [o EXCEPT !.img = @ + 1]
    ELSE [o EXCEPT !.pc = "page", !.page_num = @ + 1, !.images = <<>>, !.img = 1]

Processed(o, out) ==
    IF ~out.none /\ out.blocks # <<>>
    THEN [o EXCEPT !.inserted = _insert_text(@, o.page_num, out.blocks), !.modified = TRUE,
                   !.log = Append(@, [page |-> o.page_num, image |-> o.images[o.img],
                                      stages |-> out.stages \o <<"Insert">>])]
    ELSE [o EXCEPT !.log = Append(@, [page |-> o.page_num, image |-> o.images[o.img], stages |-> out.stages])]

ProcessImage ==
    /\ ocr.pc = "image"
    /\ OcrStep(AfterImage(Processed(ocr, _process_image(ocr.images[ocr.img]))))
    /\ UNCHANGED ret

\* after the last page: save when modified, close, return modified
Finish ==
    /\ ocr.pc = "page"
    /\ ocr.page_num > Len(doc)
    /\ OcrStep([ocr EXCEPT !.pc = "done", !.saved = ocr.modified, !.result = IF ocr.modified THEN "True" ELSE "False"])
    /\ UNCHANGED ret

NextOcr == NeedsOcr \/ SkipPage \/ ExtractImages \/ ProcessImage \/ Finish

SpecOcr == InitOcr /\ [][NextOcr]_vars
(* ============================ merging of blocks ======================== *)
\* PDFTextProperties.extract_block_properties: the properties a block gives
align_map == [k \in 0..3 |-> <<s_left, s_center, s_right, s_justify>>[k + 1]]

AlignName(align) == IF align \in DOMAIN align_map THEN align_map[align] ELSE s_left

AlignProperty(block, properties) ==
    IF "align" \in DOMAIN block THEN Put(properties, "text-align", AlignName(block["align"])) ELSE properties
\* "<n>pt" is kept as the number it is made of
LineHeightProperty(block, properties) ==
    IF "line_height" \in DOMAIN block THEN Put(properties, "line-height", [pt |-> block["line_height"]]) ELSE properties
WhiteSpaceProperty(block, properties) ==
    IF "preserve_whitespace" \in DOMAIN block
    THEN Put(properties, "white-space", IF block["preserve_whitespace"] THEN s_pre ELSE s_normal)
    ELSE properties

extract_block_properties(block) == WhiteSpaceProperty(block, LineHeightProperty(block, AlignProperty(block, EmptyDict)))

\* difflib.SequenceMatcher(None, a, b).find_longest_match(alo, ahi, blo, bhi):
\* the longest common run <<i, j, k>>, the earliest in a and then in b among
\* the longest; positions count from 0 and k = 0 when nothing matches
CommonRuns(a, b, alo, ahi, blo, bhi) ==
    {m \in (alo..(ahi - 1)) \X (blo..(bhi - 1)) \X (1..Min(ahi - alo, bhi - blo)) :
        /\ m[1] + m[3] <= ahi
        /\ m[2] + m[3] <= bhi
        /\ \A d \in 0..(m[3] - 1) : a[m[1] + d + 1] = b[m[2] + d + 1]}

Earliest(runs) ==
    CHOOSE m \in runs : \A o \in runs :
        \/ m[3] > o[3]
        \/ (m[3] = o[3] /\ m[1] < o[1])
        \/ (m[3] = o[3] /\ m[1] = o[1] /\ m[2] <= o[2])

find_longest_match(a, b, alo, ahi, blo, bhi) ==
    IF CommonRuns(a, b, alo, ahi, blo, bhi) = {} THEN <<alo, blo, 0>>
    ELSE Earliest(CommonRuns(a, b, alo, ahi, blo, bhi))

\* the number of matching characters get_matching_blocks adds up: the longest
\* run, then the same to the left and to the right of it
RECURSIVE MatchCount(_, _, _, _, _, _)
MatchSplit(a, b, alo, ahi, blo, bhi, m) ==
    IF m[3] = 0 THEN 0
    ELSE m[3]
         + (IF alo < m[1] /\ blo < m[2] THEN MatchCount(a, b, alo, m[1], blo, m[2]) ELSE 0)
         + (IF m[1] + m[3] < ahi /\ m[2] + m[3] < bhi THEN MatchCount(a, b, m[1] + m[3], ahi, m[2] + m[3], bhi) ELSE 0)

MatchCount(a, b, alo, ahi, blo, bhi) == MatchSplit(a, b, alo, ahi, blo, bhi, find_longest_match(a, b, alo, ahi, blo, bhi))

\* SequenceMatcher(None, a, b).ratio() >= 0.85, the ratio being 2.0 * M / T
SimilarTexts(a, b) ==
    IF Len(a) + Len(b) = 0 THEN TRUE
    ELSE 200 * MatchCount(a, b, 0, Len(a), 0, Len(b)) >= 85 * (Len(a) + Len(b))

\* current_props.get(prop) == next_props.get(prop) for the three properties
PropsMatch(cp, np) ==
    \A prop \in {"font-family", "font-size", "text-align"} :
        /\ (prop \in DOMAIN cp) = (prop \in DOMAIN np)
        /\ (prop \in DOMAIN cp) => cp[prop] = np[prop]

\* the loop over the blocks from block k on; current is <<>> for None
RECURSIVE MergeLoop(_, _, _, _)
MergeInto(blocks, k, merged, current) ==
    IF "lines" \notin DOMAIN current[1] \/ "lines" \notin DOMAIN blocks[k] THEN Raise(merged, "KeyError")
    ELSE MergeLoop(blocks, k + 1, merged, <<Put(current[1], "lines", current[1]["lines"] \o blocks[k]["lines"])>>)

MergeLoop(blocks, k, merged, current) ==
    IF k > Len(blocks) THEN Ok(merged \o (IF current # <<>> /\ DOMAIN current[1] # {} THEN current ELSE <<>>))
    ELSE IF current = <<>> \/ DOMAIN current[1] = {} THEN MergeLoop(blocks, k + 1, merged, <<blocks[k]>>)
    ELSE IF /\ PropsMatch(extract_block_properties(current[1]), extract_block_properties(blocks[k]))
            /\ "text" \in DOMAIN current[1] /\ "text" \in DOMAIN blocks[k]
            /\ SimilarTexts(current[1]["text"], blocks[k]["text"])
    THEN MergeInto(blocks, k, merged, current)
    ELSE MergeLoop(blocks, k + 1, merged \o current, <<blocks[k]>>)

merge_similar_blocks(blocks) == MergeLoop(blocks, 1, <<>>, <<>>)

\* the blocks handed to merge_similar_blocks: two fonts, two sizes, left or
\* right aligned, with one line each
TextBlock(font, size, align, text) ==
    [font |-> font, size |-> size, align |-> align, text |-> text, lines |-> <<[text |-> text]>>]

TextBlocks ==
    { TextBlock(font, size * Unit, align, text) :
        font \in {s_helv, s_tiro}, size \in {10, 12}, align \in {0, 2}, text \in {s_Hello_world, s_Hello_World, s_Goodbye} }

InitMerge ==
    /\ NoNode
    /\ NoFont
    /\ NoDocument
    /\ NoSession
    /\ arg \in SeqsUpTo(TextBlocks, MaxBlocks)
    /\ ret = NotCalled

MergeSimilarBlocks ==
    /\ ~ret.done
    /\ ret' = Result(merge_similar_blocks(arg))
    /\ UNCHANGED <<node, prev, op, prevOp, res, steps, fontIn, variants, arg, doc, ocr, web>>

NextMerge == MergeSimilarBlocks

SpecMerge == InitMerge /\ [][NextMerge]_vars
(* ------------------------------ alignment detection -------------------- *)
\* the x0 and the x1 of the lines that have a box, in the order of the lines
RECURSIVE left_edges(_)
left_edges(lines) ==
    IF lines = <<>> THEN <<>>
    ELSE (IF "bbox" \in DOMAIN Head(lines) THEN <<Head(lines)["bbox"].x0>> ELSE <<>>) \o left_edges(Tail(lines))

RECURSIVE right_edges(_)
right_edges(lines) ==
    IF lines = <<>> THEN <<>>
    ELSE (IF "bbox" \in DOMAIN Head(lines) THEN <<Head(lines)["bbox"].x1>> ELSE <<>>) \o right_edges(Tail(lines))

\* max(xs) and min(xs) of a list that is not empty
RECURSIVE MaxOf(_)
MaxOf(xs) == IF Len(xs) = 1 THEN xs[1] ELSE Max(xs[1], MaxOf(Tail(xs)))
RECURSIVE MinOf(_)
MinOf(xs) == IF Len(xs) = 1 THEN xs[1] ELSE Min(xs[1], MinOf(Tail(xs)))

\* l + r of each pair of edges: twice the centre (l + r) / 2
center_sums(ls, rs) == [k \in 1..Len(ls) |-> ls[k] + rs[k]]

\* variance < 1; the centres are compared by their doubles
EdgesAligned_inclusive(variance) == variance <= Unit
EdgesAligned(variance) == variance < Unit
CentersAligned(ls, rs) == MaxOf(center_sums(ls, rs)) - MinOf(center_sums(ls, rs)) < 2 * Unit

TextAlign(value) == s_text_align_ \o value \o s_semi

DetectAlign(ls, rs, left_variance, right_variance) ==
    IF EdgesAligned(left_variance) /\ EdgesAligned(right_variance) THEN TextAlign(s_justify)
    ELSE IF EdgesAligned(left_variance) THEN TextAlign(s_left)
    ELSE IF EdgesAligned(right_variance) THEN TextAlign(s_right)
    ELSE IF CentersAligned(ls, rs) THEN TextAlign(s_center)
    ELSE TextAlign(s_left)

DetectFromEdges(ls, rs) ==
    IF ls # <<>> /\ rs # <<>>
    THEN DetectAlign(ls, rs, MaxOf(ls) - MinOf(ls), MaxOf(rs) - MinOf(rs))
    ELSE TextAlign(s_left)

extract_text_align(block) ==
    IF "align" \in DOMAIN block THEN TextAlign(block["align"])
    ELSE IF "lines" \in DOMAIN block /\ block["lines"] # <<>>
    THEN DetectFromEdges(left_edges(block["lines"]), right_edges(block["lines"]))
    ELSE TextAlign(s_left)

\* the lines a block is made of: a box from a left to a right edge, or no box
LeftEdges == {10 * Unit, (21 * Unit) \div 2, 11 * Unit}
RightEdges == {100 * Unit, 119 * Unit, 120 * Unit, 150 * Unit}
AlignLines == {[bbox |-> Rect(l, 0, r, 12 * Unit)] : l \in LeftEdges, r \in RightEdges} \cup {[text |-> s_Hi]}
AlignBlocks ==
    {[lines |-> ls] : ls \in SeqsUpTo(AlignLines, MaxLines)}
    \cup {[lines |-> ls, align |-> a] : ls \in SeqsUpTo(AlignLines, 1), a \in {s_center, s_right}}
    \cup {EmptyDict}

InitAlign ==
    /\ NoNode
    /\ NoFont
    /\ NoDocument
    /\ NoSession
    /\ arg \in AlignBlocks
    /\ ret = NotCalled

ExtractTextAlign ==
    /\ ~ret.done
    /\ ret' = Result(extract_text_align(arg))
    /\ UNCHANGED <<node, prev, op, prevOp, res, steps, fontIn, variants, arg, doc, ocr, web>>

NextAlign == ExtractTextAlign
SpecAlign == InitAlign /\ [][NextAlign]_vars
(* ------------------------------ lengths normalised --------------------- *)
\* the normalize function of each property that takes a length
Normalizers == {"font-size", "letter-spacing", "word-spacing", "text-indent", "line-height"}

Normalize(property, value) ==
    IF property = "font-size" THEN normalize_font_size(value)
    ELSE IF property = "letter-spacing" THEN normalize_letter_spacing(value)
    ELSE IF property = "word-spacing" THEN normalize_spacing(value)
    ELSE IF property = "text-indent" THEN normalize_indent(value)
    ELSE normalize_line_height(value)

\* the decimals written in the strings, each with the number it denotes
Decimals ==
    {[s |-> s_12, v |-> 12 * Unit], [s |-> s_1_5, v |-> (3 * Unit) \div 2], [s |-> s_minus_2, v |-> -2 * Unit],
     [s |-> s_point_5, v |-> Unit \div 2], [s |-> s_150, v |-> 150 * Unit], [s |-> s_0, v |-> 0]}
UnitSuffixes == {s_empty, s_pt, s_px, s_em, s_rem, s_pct}
LengthStrings == {d.s \o u : d \in Decimals, u \in UnitSuffixes} \cup {s_normal}

InitUnits ==
    /\ NoNode
    /\ NoFont
    /\ NoDocument
    /\ NoSession
    /\ arg \in LengthStrings
    /\ ret = NotCalled

\* one property's normalize function is applied to the string; ret.val
\* collects the point value each property has given
NormalizeFor(property) ==
    /\ ret' = Result(Put(ret.val, property, Normalize(property, PStr(arg)).val))
    /\ UNCHANGED <<node, prev, op, prevOp, res, steps, fontIn, variants, arg, doc, ocr, web>>

NormalizeFontSize == "font-size" \notin DOMAIN ret.val /\ NormalizeFor("font-size")
NormalizeLetterSpacing == "letter-spacing" \notin DOMAIN ret.val /\ NormalizeFor("letter-spacing")
NormalizeSpacing == "word-spacing" \notin DOMAIN ret.val /\ NormalizeFor("word-spacing")
NormalizeIndent == "text-indent" \notin DOMAIN ret.val /\ NormalizeFor("text-indent")
NormalizeLineHeight == "line-height" \notin DOMAIN ret.val /\ NormalizeFor("line-height")

NextUnits == NormalizeFontSize \/ NormalizeLetterSpacing \/ NormalizeSpacing \/ NormalizeIndent \/ NormalizeLineHeight
SpecUnits == InitUnits /\ [][NextUnits]_vars
(* ------------------------------ underline geometry ---------------------- *)
\* calculate_dash_pattern(font_size, style): the metrics as a dict
calculate_dash_pattern(font_size, style) ==
    LET metrics == ("thickness" :> ThicknessOf(font_size, 4)) @@ ("offset" :> -MulF(font_size, 10, 100))
    IN IF style = s_dashed
       THEN Put(Put(metrics, "dash_length", (3 * font_size) \div 12), "gap_length", (2 * font_size) \div 12)
       ELSE IF style = s_dotted
       THEN Put(Put(metrics, "dot_diameter", font_size \div 12), "gap_length", (2 * font_size) \div 12)
       ELSE IF style = s_wavy
       THEN Put(Put(metrics, "wave_amplitude", MulF(font_size, 5, 100)), "wave_length", MulF(font_size, 4, 10))
       ELSE metrics

\* calculate_underline_metrics(font_size, style)
calculate_underline_metrics(font_size, style) ==
    LET base_thickness == ThicknessOf(font_size, 5)
        base_position == -MulF(font_size, 15, 100)
        metrics == ("thickness" :> base_thickness) @@ ("position" :> base_position) @@ ("gap" :> base_thickness * 2)
    IN IF style = s_double
       THEN Put(Put(metrics, "gap_between_lines", base_thickness * 2),
                "second_position", base_position - base_thickness * 3)
       ELSE IF style = s_wavy
       THEN Put(Put(metrics, "wave_amplitude", base_thickness * 2), "wave_length", MulF(font_size, 4, 10))
       ELSE metrics

\* calculate_double_underline_metrics(font_size)
calculate_double_underline_metrics(font_size) ==
    [line_thickness |-> ThicknessOf(font_size, 4), line_spacing |-> MulF(font_size, 10, 100),
     offset_from_baseline |-> MulF(font_size, 10, 100)]

\* the spans underlined: a text set in 4pt, 12pt or 24pt, and one without a size
SizedSpan(points) == [kind |-> "span", flags |-> 0, font |-> s_helv, text |-> s_Hi, size |-> points * Unit]
UnderlineSpans == {SizedSpan(4), SizedSpan(12), SizedSpan(24), [kind |-> "span", flags |-> 0, text |-> s_Hi]}

UnderlineDecorations ==
    {PStr(s_underline), PStr(s_underline_dashed), PStr(s_underline_dotted), PStr(s_underline_wavy),
     PStr(s_underline_double)}
DashedStyles == {PStr(s_dashed), PStr(s_dotted), PStr(s_wavy)}
DoubleStyles == {PStr(s_double)}

InitUnderline ==
    /\ node \in UnderlineSpans
    /\ prev = node
    /\ op = NoOp
    /\ prevOp = NoOp
    /\ res = ""
    /\ steps = 0
    /\ NoFont
    /\ NoCall
    /\ NoDocument
    /\ NoSession

UnderlineSpan == IsSpan /\ \E sd \in StyleMaps("text-decoration", UnderlineDecorations) : Call("reinsert_underline", sd, reinsert_underline(node, sd))
DashedUnderlineSpan == IsSpan /\ \E sd \in StyleMaps("text-decoration-style", DashedStyles) : Call("reinsert_dashed_underline", sd, reinsert_dashed_underline(node, sd))
DoubleUnderlineSpan == IsSpan /\ \E sd \in StyleMaps("text-decoration-style", DoubleStyles) : Call("reinsert_double_underline", sd, reinsert_double_underline(node, sd))

NextUnderline == UnderlineSpan \/ DashedUnderlineSpan \/ DoubleUnderlineSpan
SpecUnderline == InitUnderline /\ [][NextUnderline]_vars
(* ------------------------------ Otsu threshold ------------------------- *)
\* image.histogram() of a greyscale image: Levels counts, one per intensity
Levels == 256

\* a variance weight_bg * weight_fg * (mean_bg - mean_fg) ** 2 with
\* mean_bg = sum_bg / weight_bg and mean_fg = sum_fg / weight_fg, kept as the
\* fraction (sum_bg * weight_fg - sum_fg * weight_bg)^2 / (weight_bg * weight_fg)
Variance(weight_bg, weight_fg, sum_bg, sum_fg) ==
    [num |-> (sum_bg * weight_fg - sum_fg * weight_bg) * (sum_bg * weight_fg - sum_fg * weight_bg),
     den |-> weight_bg * weight_fg]

\* variance > max_variance
Exceeds_or_equals(variance, max_variance) == variance.num * max_variance.den >= max_variance.num * variance.den
Exceeds(variance, max_variance) == variance.num * max_variance.den > max_variance.num * variance.den

\* sum(hist) and sum(i * hist[i]) over the levels lo..hi
RECURSIVE SumCounts(_, _, _)
SumCounts(hist, lo, hi) ==
    IF lo = hi THEN hist[lo]
    ELSE SumCounts(hist, lo, (lo + hi) \div 2) + SumCounts(hist, (lo + hi) \div 2 + 1, hi)
RECURSIVE SumWeighted(_, _, _)
SumWeighted(hist, lo, hi) ==
    IF lo = hi THEN lo * hist[lo]
    ELSE SumWeighted(hist, lo, (lo + hi) \div 2) + SumWeighted(hist, (lo + hi) \div 2 + 1, hi)

\* the locals of get_adaptive_threshold when its loop is entered; sum_fg is
\* sum(i * hist[i] for i in range(t + 1, 256)), here for t = -1
OtsuEntered(hist) ==
    [t |-> 0, total |-> SumCounts(hist, 0, Levels - 1), weight_bg |-> 0, sum_bg |-> 0,
     sum_fg |-> SumWeighted(hist, 0, Levels - 1), max_variance |-> [num |-> 0, den |-> 1], threshold |-> 0]

\* the locals after the body of the loop has run to its end for t
OtsuCompared(l, hist, variance) ==
    [l EXCEPT !.t = @ + 1, !.weight_bg = @ + hist[l.t], !.sum_bg = @ + l.t * hist[l.t],
              !.sum_fg = @ - l.t * hist[l.t],
              !.max_variance = IF Exceeds(variance, @) THEN variance ELSE @,
              !.threshold = IF Exceeds(variance, l.max_variance) THEN l.t ELSE @]

\* histograms with their mass at one or two intensities, or none at all
PeakLevels == {0, 1, 100, 200, Levels - 2, Levels - 1}
MaxMass == 3
Peaks(a, m, b, n) == [i \in 0..(Levels - 1) |-> IF i = a THEN m ELSE IF i = b THEN n ELSE 0]
Histograms ==
    {Peaks(a, m, b, n) : a \in PeakLevels, m \in 0..MaxMass, b \in PeakLevels, n \in 1..MaxMass}
    \cup {Peaks(0, 0, 0, 0)}

InitOtsu ==
    /\ NoNode
    /\ NoFont
    /\ NoDocument
    /\ NoSession
    /\ arg \in Histograms
    /\ ret = [done |-> FALSE, val |-> OtsuEntered(arg)]

OtsuStep(next) ==
    /\ ret' = next
    /\ UNCHANGED <<node, prev, op, prevOp, res, steps, fontIn, variants, arg, doc, ocr, web>>

InLoop == ~ret.done /\ ret.val.t < Levels

\* weight_bg == 0: continue
OtsuContinue ==
    /\ InLoop
    /\ ret.val.weight_bg + arg[ret.val.t] = 0
    /\ OtsuStep([ret EXCEPT !.val.t = @ + 1])

\* weight_fg == 0: break, and the threshold is returned
OtsuBreak ==
    /\ InLoop
    /\ ret.val.weight_bg + arg[ret.val.t] # 0
    /\ ret.val.total - (ret.val.weight_bg + arg[ret.val.t]) = 0
    /\ OtsuStep(Result(ret.val.threshold))

\* the variance of the split at t is compared with the best so far
OtsuCompare ==
    /\ InLoop
    /\ ret.val.weight_bg + arg[ret.val.t] # 0
    /\ ret.val.total - (ret.val.weight_bg + arg[ret.val.t]) # 0
    /\ OtsuStep([ret EXCEPT !.val = OtsuCompared(@, arg,
                     Variance(@.weight_bg + arg[@.t], @.total - (@.weight_bg + arg[@.t]),
                              @.sum_bg + @.t * arg[@.t], @.sum_fg - @.t * arg[@.t]))])

\* the loop has run through every level
OtsuReturn ==
    /\ ~ret.done /\ ret.val.t = Levels
    /\ OtsuStep(Result(ret.val.threshold))

NextOtsu == OtsuContinue \/ OtsuBreak \/ OtsuCompare \/ OtsuReturn
SpecOtsu == InitOtsu /\ [][NextOtsu]_vars
(* ------------------------------ line height read back ------------------ *)
\* str(n) of a natural number
RECURSIVE DecimalDigits(_)
DecimalDigits(n) == IF n < 10 THEN <<DigitChars[n + 1]>> ELSE DecimalDigits(n \div 10) \o <<DigitChars[(n % 10) + 1]>>

\* f"{x:.2f}" of x >= 0 given in hundredths
FormatHundredths(h) ==
    DecimalDigits(h \div 100) \o s_dot \o <<DigitChars[(h % 100) \div 10 + 1], DigitChars[(h % 10) + 1]>>

\* the gaps next_top - current_bottom that are positive, in the order of the lines
RECURSIVE Spacings(_, _)
Spacings(lines, i) ==
    IF i >= Len(lines) THEN <<>>
    ELSE (IF "bbox" \in DOMAIN lines[i] /\ "bbox" \in DOMAIN lines[i + 1]
             /\ lines[i + 1]["bbox"].y0 - lines[i]["bbox"].y1 > 0
          THEN <<lines[i + 1]["bbox"].y0 - lines[i]["bbox"].y1>>
          ELSE <<>>) \o Spacings(lines, i + 1)

RECURSIVE SumOf(_)
SumOf(xs) == IF xs = <<>> THEN 0 ELSE Head(xs) + SumOf(Tail(xs))

\* line_height = (sum(spacings) / len(spacings)) / font_size, to two decimals
LineHeightReport(spacings, font_size) ==
    IF font_size = 0 THEN [val |-> s_empty, exc |-> "ZeroDivisionError"]
    ELSE [val |-> s_line_height_ \o FormatHundredths(RoundDiv(100 * SumOf(spacings), Len(spacings) * font_size)) \o s_semi,
          exc |-> ""]

\* extract_line_height(block): [val, exc]
extract_line_height(block) ==
    IF "lines" \notin DOMAIN block \/ Len(block["lines"]) < 2 THEN [val |-> s_empty, exc |-> ""]
    ELSE IF Spacings(block["lines"], 1) = <<>> THEN [val |-> s_empty, exc |-> ""]
    ELSE IF "spans" \in DOMAIN block["lines"][1] /\ block["lines"][1]["spans"] # <<>>
    THEN LineHeightReport(Spacings(block["lines"], 1), Get(block["lines"][1]["spans"][1], "size", 12 * Unit))
    ELSE [val |-> s_empty, exc |-> ""]
(* ------------------------------ writing mode read back ----------------- *)
\* math.degrees(math.atan2(y, x)) for y, x in -1..1
DegreesAtan2(y, x) ==
    IF y = 0 THEN (IF x < 0 THEN 180 ELSE 0)
    ELSE IF y > 0 THEN (IF x > 0 THEN 45 ELSE IF x = 0 THEN 90 ELSE 135)
    ELSE (IF x > 0 THEN -45 ELSE IF x = 0 THEN -90 ELSE -135)

\* the pair returned for an angle that has been taken % 360
DirectionOfAngle(angle) ==
    IF -45 <= angle /\ angle <= 45 THEN <<"direction: ltr;", "writing-mode: horizontal-tb;">>
    ELSE IF 45 < angle /\ angle <= 135 THEN <<"direction: ltr;", "writing-mode: vertical-rl;">>
    ELSE IF -135 <= angle /\ angle < -45 THEN <<"direction: ltr;", "writing-mode: vertical-lr;">>
    ELSE <<"direction: rtl;", "writing-mode: horizontal-tb;">>

\* extract_text_direction(span): [val, exc]; span["transform"] is indexed at
\* 0 and 1 and the two items are handed to math.atan2
extract_text_direction(span) ==
    IF "transform" \notin DOMAIN span
    THEN [val |-> <<"direction: ltr;", "writing-mode: horizontal-tb;">>, exc |-> ""]
    ELSE IF span["transform"].t = "list"
    THEN [val |-> DirectionOfAngle(DegreesAtan2(span["transform"].s[2], span["transform"].s[1]) % 360), exc |-> ""]
    ELSE IF span["transform"].t = "str" /\ Len(span["transform"].s) < 2
    THEN [val |-> <<>>, exc |-> "IndexError"]
    ELSE [val |-> <<>>, exc |-> "TypeError"]

TransformNames == {PStr(s_uppercase), PStr(s_lowercase), PStr(s_capitalize), PStr(s_none)}
WritingModes == {PStr(s_horizontal_tb), PStr(s_vertical_rl), PStr(s_vertical_lr)}

InitDirection ==
    /\ node \in InitSpans
    /\ prev = node
    /\ op = NoOp
    /\ prevOp = NoOp
    /\ res = ""
    /\ steps = 0
    /\ NoFont
    /\ NoCall
    /\ NoDocument
    /\ NoSession

TransformSpan == IsSpan /\ \E sd \in StyleMaps("text-transform", TransformNames) : Call("reinsert_text_transform", sd, reinsert_text_transform(node, sd))
DirectSpan == IsSpan /\ \E sd \in StyleMaps("writing-mode", WritingModes) : Call("reinsert_text_direction", sd, reinsert_text_direction(node, sd))

NextDirection == TransformSpan \/ DirectSpan
SpecDirection == InitDirection /\ [][NextDirection]_vars
(* ============================ editing sessions ========================= *)
\* Number of ids create_session may hand out, and the last clock reading at
\* which a request may still begin.
MaxSessions == 2

MaxClock == 4

\* dict.pop(k)
DictPop(d, k) == [a \in (DOMAIN d) \ {k} |-> d[a]]

\* os.path.join(UPLOAD_FOLDER, filename) and os.path.join(temp_dir, "<session_id>.pdf")
UploadPath == <<"uploads", 0>>

TempPath(session_id) == <<"tmp", session_id>>

\* a PDF file: its pages, the texts process_pdf inserted into it and the
\* changes update_session applied to it
Pdf(pages) == [pages |-> pages, inserted |-> <<>>, edits |-> <<>>]

\* the documents uploaded: one with text, one scanned
Uploads == { <<OcrPage(s_Hi, <<>>)>>, <<OcrPage(s_empty, <<ImageWithText>>)>> }

\* the changes of an apply_style request: a style change, a content change
\* and a change without "type"
StyleChange == [type |-> "text_style", page |-> 0, text |-> "A"]

ContentChange == [type |-> "text_content", page |-> 0, text |-> "B"]

UntypedChange == [page |-> 0, text |-> "C"]

ChangeLists == { <<StyleChange>>, <<ContentChange>>, <<UntypedChange>>, <<StyleChange, UntypedChange>> }

\* process_pdf from page page_num on and, within a page, from image img on:
\* the texts inserted
RECURSIVE OcrImagesFrom(_, _, _, _)
InsertedBy(inserted, page_num, out) ==
    IF ~out.none /\ out.blocks # <<>> THEN _insert_text(inserted, page_num, out.blocks) ELSE inserted
OcrImagesFrom(inserted, page_num, images, img) ==
    IF img > Len(images) THEN inserted
    ELSE OcrImagesFrom(InsertedBy(inserted, page_num, _process_image(images[img])), page_num, images, img + 1)

RECURSIVE OcrPagesFrom(_, _, _)
OcrPagesFrom(pages, page_num, inserted) ==
    IF page_num > Len(pages) THEN inserted
    ELSE IF Strip(pages[page_num].text) # <<>> THEN OcrPagesFrom(pages, page_num + 1, inserted)
    ELSE OcrPagesFrom(pages, page_num + 1,
                      OcrImagesFrom(inserted, page_num, _extract_images(pages[page_num]), 1))

process_pdf(pages) == OcrPagesFrom(pages, 1, <<>>)

\* a request being handled: where it is (pc), which route it came through
\* (req), its session_id and changes, the path and the id create_session
\* works with (pdf_path, created), the document it holds open (doc) with the
\* position of the loop over the changes (k), the sessions as they were when
\* update_session was entered (entry) and what was returned (out)
NoRequest ==
    [pc |-> "idle", req |-> "", session_id |-> 0, changes |-> <<>>, pdf_path |-> UploadPath, created |-> 0,
     doc |-> Pdf(<<>>), k |-> 0, entry |-> <<>>, out |-> ""]

Free(t) == calls[t].pc \in {"idle", "done"}

Responded(c, out) == [c EXCEPT !.pc = "done", !.out = out]

NoHandler == UNCHANGED <<node, prev, op, prevOp, res, steps, fontIn, variants, arg, ret, doc, ocr>>

\* upload_file, lines 32-34: the upload is stored and create_session called
UploadFile(t) ==
    /\ Free(t)
    /\ uuids < MaxSessions
    /\ \E pages \in Uploads : files' = Put(files, UploadPath, Pdf(pages))
    /\ calls' = [calls EXCEPT ![t] = [NoRequest EXCEPT !.pc = "create", !.req = "upload", !.pdf_path = UploadPath]]
    /\ UNCHANGED <<sessions, now, uuids>>
    /\ NoHandler

\* revert_changes: 404 for an unknown session; otherwise close_session
\* removes the working file and the session, and create_session is called
\* with the original path
RevertChanges(t) ==
    /\ Free(t)
    /\ uuids < MaxSessions
    /\ \E session_id \in 0..uuids :
         IF session_id \notin DOMAIN sessions
         THEN /\ calls' = [calls EXCEPT ![t] = Responded([NoRequest EXCEPT !.req = "revert", !.session_id = session_id], "404")]
              /\ UNCHANGED <<sessions, files>>
         ELSE /\ files' = DictPop(files, sessions[session_id].path)
              /\ sessions' = DictPop(sessions, session_id)
              /\ calls' = [calls EXCEPT ![t] = [NoRequest EXCEPT !.pc = "create", !.req = "revert",
                                                                 !.session_id = session_id,
                                                                 !.pdf_path = sessions[session_id].original_path]]
    /\ UNCHANGED <<now, uuids>>
    /\ NoHandler

\* create_session, lines 18-22: a fresh id, then fitz.open(pdf_path), which
\* raises for a missing file and may raise for any other; nothing catches it
\* but the except of upload_file
CreateOpen(t) ==
    /\ calls[t].pc = "create"
    /\ uuids' = uuids + 1
    /\ \E opened \in BOOLEAN :
         calls' = [calls EXCEPT ![t] =
                     IF opened /\ calls[t].pdf_path \in DOMAIN files
                     THEN [@ EXCEPT !.pc = "copy", !.created = uuids + 1, !.doc = files[calls[t].pdf_path]]
                     ELSE Responded([@ EXCEPT !.created = uuids + 1], "500")]
    /\ UNCHANGED <<sessions, files, now>>
    /\ NoHandler

\* create_session, lines 23-35: doc.save(temp_path), which may raise, then the
\* session is recorded and its id returned; upload_file goes on to needs_ocr
CreateSave(t) ==
    /\ calls[t].pc = "copy"
    /\ \E saved \in BOOLEAN :
         IF saved
         THEN /\ files' = Put(files, TempPath(calls[t].created), calls[t].doc)
              /\ sessions' = Put(sessions, calls[t].created,
                                 [path |-> TempPath(calls[t].created), original_path |-> calls[t].pdf_path,
                                  created |-> now + 1, last_modified |-> now + 2, changes |-> <<>>])
              /\ now' = now + 2
              /\ calls' = [calls EXCEPT ![t] = IF @.req = "upload" THEN [@ EXCEPT !.pc = "needs_ocr"]
                                               ELSE Responded(@, "200")]
         ELSE /\ calls' = [calls EXCEPT ![t] = Responded(@, "500")]
              /\ UNCHANGED <<sessions, files, now>>
    /\ UNCHANGED uuids
    /\ NoHandler

\* upload_file, line 40: needs_ocr(upload_path), False when the file cannot be
\* opened
UploadNeedsOcr(t) ==
    /\ calls[t].pc = "needs_ocr"
    /\ \E opened \in BOOLEAN :
         calls' = [calls EXCEPT ![t] =
                     IF opened /\ UploadPath \in DOMAIN files /\ needs_ocr(files[UploadPath].pages)
                     THEN [@ EXCEPT !.pc = "process_pdf"]
                     ELSE Responded(@, "200")]
    /\ UNCHANGED <<sessions, files, now, uuids>>
    /\ NoHandler

\* upload_file, lines 42-49: process_pdf(upload_path) saves the upload when it
\* inserted a text; the session id is returned whatever process_pdf returns
UploadProcessPdf(t) ==
    /\ calls[t].pc = "process_pdf"
    /\ \E opened \in BOOLEAN :
         files' = IF opened /\ UploadPath \in DOMAIN files /\ process_pdf(files[UploadPath].pages) # <<>>
                  THEN [files EXCEPT ![UploadPath].inserted = process_pdf(files[UploadPath].pages)]
                  ELSE files
    /\ calls' = [calls EXCEPT ![t] = Responded(@, "200")]
    /\ UNCHANGED <<sessions, now, uuids>>
    /\ NoHandler

\* apply_style and update_session, lines 43-48: False for an unknown session;
\* otherwise the changes are recorded and last_modified is set
ApplyStyle(t) ==
    /\ Free(t)
    /\ now < MaxClock
    /\ \E session_id \in 0..uuids, changes \in ChangeLists :
         IF session_id \notin DOMAIN sessions
         THEN /\ calls' = [calls EXCEPT ![t] = Responded([NoRequest EXCEPT !.req = "apply_style", !.session_id = session_id,
                                                                          !.changes = changes, !.entry = sessions], "False")]
              /\ UNCHANGED <<sessions, now>>
         ELSE /\ sessions' = [sessions EXCEPT ![session_id].changes = @ \o changes,
                                              ![session_id].last_modified = now + 1]
              /\ now' = now + 1
              /\ calls' = [calls EXCEPT ![t] = [NoRequest EXCEPT !.pc = "open", !.req = "apply_style",
                                                                 !.session_id = session_id, !.changes = changes,
                                                                 !.pdf_path = sessions[session_id].path,
                                                                 !.entry = sessions]]
    /\ UNCHANGED <<files, uuids>>
    /\ NoHandler

\* update_session, line 51: fitz.open(session["path"]) stands before the try,
\* so what it raises leaves update_session
UpdateOpen(t) ==
    /\ calls[t].pc = "open"
    /\ \E opened \in BOOLEAN :
         calls' = [calls EXCEPT ![t] =
                     IF opened /\ calls[t].pdf_path \in DOMAIN files
                     THEN [@ EXCEPT !.pc = "apply", !.doc = files[calls[t].pdf_path], !.k = 1]
                     ELSE Responded(@, "raised")]
    /\ UNCHANGED <<sessions, files, now, uuids>>
    /\ NoHandler

\* update_session, lines 53-57: one round of the loop over the changes;
\* change["type"] raises KeyError when there is none, the library may raise
\* while the change is applied, and a change of another type is passed over
Applied(c, change, applied) ==
    IF "type" \notin DOMAIN change THEN Responded(c, "False")
    ELSE IF change.type \notin {"text_style", "text_content"} THEN [c EXCEPT !.k = @ + 1]
    ELSE IF applied THEN [c EXCEPT !.k = @ + 1, !.doc.edits = Append(@, change)]
    ELSE Responded(c, "False")

UpdateApply(t) ==
    /\ calls[t].pc = "apply"
    /\ calls[t].k <= Len(calls[t].changes)
    /\ \E applied \in BOOLEAN :
         calls' = [calls EXCEPT ![t] = Applied(@, calls[t].changes[calls[t].k], applied)]
    /\ UNCHANGED <<sessions, files, now, uuids>>
    /\ NoHandler

\* update_session, lines 58-62: doc.save(session["path"]) and True, or False
\* when the save raises
UpdateSave(t) ==
    /\ calls[t].pc = "apply"
    /\ calls[t].k > Len(calls[t].changes)
    /\ \E saved \in BOOLEAN :
         IF saved
         THEN /\ files' = Put(files, calls[t].pdf_path, calls[t].doc)
              /\ calls' = [calls EXCEPT ![t] = Responded(@, "True")]
         ELSE /\ calls' = [calls EXCEPT ![t] = Responded(@, "False")]
              /\ UNCHANGED files
    /\ UNCHANGED <<sessions, now, uuids>>
    /\ NoHandler

NoHandlerCall == NoNode /\ NoFont /\ NoCall /\ NoDocument

\* one request at a time
InitSession ==
    /\ NoHandlerCall
    /\ sessions = EmptyDict
    /\ files = EmptyDict
    /\ calls = [t \in {1} |-> NoRequest]
    /\ now = 0
    /\ uuids = 0

\* two requests handled at the same time
InitEdits ==
    /\ NoHandlerCall
    /\ sessions = EmptyDict
    /\ files = EmptyDict
    /\ calls = [t \in {1, 2} |-> NoRequest]
    /\ now = 0
    /\ uuids = 0

NextSession ==
    \/ \E t \in DOMAIN calls : UploadFile(t)
    \/ \E t \in DOMAIN calls : RevertChanges(t)
    \/ \E t \in DOMAIN calls : CreateOpen(t)
    \/ \E t \in DOMAIN calls : CreateSave(t)
    \/ \E t \in DOMAIN calls : UploadNeedsOcr(t)
    \/ \E t \in DOMAIN calls : UploadProcessPdf(t)
    \/ \E t \in DOMAIN calls : ApplyStyle(t)
    \/ \E t \in DOMAIN calls : UpdateOpen(t)
    \/ \E t \in DOMAIN calls : UpdateApply(t)
    \/ \E t \in DOMAIN calls : UpdateSave(t)

SpecSession == InitSession /\ [][NextSession]_vars

SpecEdits == InitEdits /\ [][NextSession]_vars

(* ====================================================================== *)
(* The properties checked                                                 *)
(* ====================================================================== *)
Flags(n) == Get(n, "flags", 0)
Font(n) == Get(n, "font", s_empty)

\* the last call returned, and its style map carried the key
Returned == op.name # "none" /\ res = ""
Value(key) == op.sd[key]
Carries(key) == key \in DOMAIN op.sd
CarriesStr(key, lits) == Carries(key) /\ PyIn(Value(key), lits)

UnderlineHandlers == {"reinsert_underline", "reinsert_dashed_underline", "reinsert_double_underline"}

\* the map carries an underline key
HasUnderlineKey ==
    \/ Carries("text-decoration") /\ Value("text-decoration").t = "str"
       /\ Contains(Value("text-decoration").s, s_underline)
    \/ CarriesStr("text-decoration-style", {s_solid, s_dashed, s_dotted, s_double, s_wavy})

\* the map's text-decoration no longer contains 'underline'
DecorationCleared ==
    Carries("text-decoration") /\ Value("text-decoration").t = "str"
    /\ ~Contains(Value("text-decoration").s, s_underline)

\* C1: after an underline-family reinsert handler has been applied with a
\* style map, flag bit 2 is set whenever the map carries an underline key, and
\* is cleared when the map's text-decoration no longer contains 'underline'.
C1_UnderlineBitFollowsTheMap ==
    (Returned /\ op.name \in UnderlineHandlers) =>
        /\ HasUnderlineKey => BitAnd(Flags(node), 4) = 4
        /\ DecorationCleared => BitAnd(Flags(node), 4) = 0

\* the flag bits a handler owns
OwnedBits(name) ==
    IF name \in {"reinsert_bold", "reinsert_font_weight"} THEN 16
    ELSE IF name \in {"reinsert_italic", "reinsert_font_style"} THEN 1
    ELSE IF name \in UnderlineHandlers THEN 4
    ELSE 64

FlagHandlers ==
    {"reinsert_bold", "reinsert_font_weight", "reinsert_italic", "reinsert_font_style", "reinsert_small_caps"}
    \cup UnderlineHandlers

\* C2: each of the weight, style, underline and small-caps reinsert handlers
\* changes at most its own flag bit (16, 1, 4, 64); every other bit is the
\* same after the call as before, whatever calls came before it.
C2_FlagsAreReadModifyWritten ==
    op.name \in FlagHandlers =>
        AndNot(Flags(node), OwnedBits(op.name)) = AndNot(Flags(prev), OwnedBits(op.name))

\* a second handler of another family has changed the flags a first one left
C2_Witness ==
    /\ steps = 2 /\ res = ""
    /\ prevOp.name = "reinsert_bold" /\ op.name = "reinsert_small_caps"
    /\ Flags(prev) = 17 /\ Flags(node) = 81

\* C3: reinsert_vertical_align leaves the italic bit 0 as it was for every
\* value other than 'sub', leaves bits 2, 4 and 6 as they were for every
\* value, and so an italic span is still reported italic after baseline or
\* super.
C3_VerticalAlignKeepsOtherBits ==
    (Returned /\ op.name = "reinsert_vertical_align" /\ Carries("vertical-align")) =>
        /\ ~PyEq(Value("vertical-align"), s_sub) => BitAnd(Flags(node), 1) = BitAnd(Flags(prev), 1)
        /\ BitAnd(Flags(node), 84) = BitAnd(Flags(prev), 84)
        /\ (PyIn(Value("vertical-align"), {s_baseline, s_super}) /\ extract_italic(prev) = "font-style: italic;")
               => extract_italic(node) = "font-style: italic;"

\* the key each handler is driven by
HandlerKey ==
    [reinsert_bold |-> "font-weight", reinsert_font_weight |-> "font-weight",
     reinsert_italic |-> "font-style", reinsert_font_style |-> "font-style",
     reinsert_underline |-> "text-decoration", reinsert_dashed_underline |-> "text-decoration-style",
     reinsert_double_underline |-> "text-decoration-style", reinsert_small_caps |-> "font-variant",
     reinsert_vertical_align |-> "vertical-align", reinsert_font_family |-> "font-family",
     reinsert_font_size |-> "font-size", reinsert_letter_spacing |-> "letter-spacing",
     reinsert_word_spacing |-> "word-spacing", reinsert_line_height |-> "line-height",
     reinsert_text_align |-> "text-align", reinsert_text_justify |-> "text-justify",
     reinsert_text_indent |-> "text-indent", reinsert_text_transform |-> "text-transform",
     reinsert_text_wrap |-> "overflow-wrap", reinsert_text_overflow |-> "text-overflow",
     reinsert_white_space |-> "white-space", reinsert_text_direction |-> "writing-mode",
     reinsert_font_smoothing |-> "font-smooth", reinsert_hyphenation |-> "hyphens"]

\* C4: when the style map does not contain the key a reinsert handler is
\* driven by, the node it returns has every field equal to its value before
\* the call.
C4_AbsentKeyLeavesTheNode ==
    (op.name # "none" /\ ~Carries(HandlerKey[op.name])) => (res = "" /\ node = prev)

\* a block that an earlier call has changed is handed to reinsert_white_space
\* with a map that lacks white-space
C4_Witness ==
    /\ steps = 2 /\ IsBlock
    /\ prevOp.name = "reinsert_text_align" /\ "text_align" \in DOMAIN prev
    /\ op.name = "reinsert_white_space" /\ ~Carries("white-space")
    /\ node = prev

\* the corners of span box s lie within those of line box l
Inside(s, l) == s.x0 >= l.x0 /\ s.x1 <= l.x1 /\ s.y0 >= l.y0 /\ s.y1 <= l.y1

\* every span's box is contained in its line's box
Contained(block) ==
    "lines" \in DOMAIN block =>
        \A i \in 1..Len(block["lines"]) :
            ("bbox" \in DOMAIN block["lines"][i] /\ "spans" \in DOMAIN block["lines"][i]) =>
                \A j \in 1..Len(block["lines"][i]["spans"]) :
                    "bbox" \in DOMAIN block["lines"][i]["spans"][j] =>
                        Inside(block["lines"][i]["spans"][j]["bbox"], block["lines"][i]["bbox"])

\* C5: after any reinsert handler call on a block in which every span's box
\* was contained in its line's box, every span's box is still contained in
\* its line's box.
C5_SpansStayInsideTheirLine ==
    (IsBlock /\ Returned /\ Contained(prev)) => Contained(node)

WeightStyleHandlers == {"reinsert_bold", "reinsert_font_weight", "reinsert_italic", "reinsert_font_style"}

\* C6: a span whose font and flags were produced by a weight or style
\* reinsert handler keeps its font identifier, its flags and its extracted
\* font-family when the same handler is applied again with the same value.
C6_ReinsertingAgainChangesNothing ==
    (steps >= 2 /\ Returned /\ op = prevOp /\ op.name \in WeightStyleHandlers /\ Carries(HandlerKey[op.name])) =>
        /\ Font(node) = Font(prev)
        /\ Flags(node) = Flags(prev)
        /\ extract_font_family(node) = extract_font_family(prev)

ItalicVariants == {s_helvi, s_helvbi, s_tiroi, s_tirobi, s_couri, s_courbi}

\* C7: a span reported italic (by flag or by font name) is still reported
\* italic, with an italic font variant, after reinsert_bold or
\* reinsert_font_weight; a span reported bold (by flag or by font name) is
\* still reported bold after reinsert_italic or reinsert_font_style.
C7_WeightAndStyleKeepEachOther ==
    (Returned /\ op.name \in WeightStyleHandlers /\ Carries(HandlerKey[op.name])) =>
        /\ (op.name \in {"reinsert_bold", "reinsert_font_weight"} /\ extract_italic(prev) = "font-style: italic;")
               => /\ extract_italic(node) = "font-style: italic;"
                  /\ "font" \in DOMAIN node => node["font"] \in ItalicVariants
        /\ (op.name \in {"reinsert_italic", "reinsert_font_style"} /\ extract_bold(prev) = "font-weight: bold;")
               => extract_bold(node) = "font-weight: bold;"

AllStyles == {"normal", "bold", "italic", "bold-italic"}

\* the family each of the font names stands for: itself or the family its
\* alias names, Helvetica when it is neither
ExpectedFamily ==
    (s_helvetica :> s_helvetica) @@ (s_times :> s_times) @@ (s_courier :> s_courier) @@
    (s_arial :> s_helvetica) @@ (s_georgia :> s_times) @@ (s_consolas :> s_courier) @@
    (s_Georgia :> s_times) @@ (s_Times_Bold :> s_times) @@ (s_Times_Italic :> s_times) @@
    (s_Helvetica_Oblique :> s_helvetica) @@ (s_sp_times_sp :> s_times) @@
    (s_Courier_New :> s_helvetica) @@ (s_Times_New_Roman :> s_helvetica) @@
    (s_Arial_Black :> s_helvetica) @@ (s_Futura :> s_helvetica) @@ (s_tirob :> s_helvetica)

\* the four identifiers resolved for a name are distinct and are the four
\* entries of the family the name stands for
FourVariantsOfOneFamily ==
    DOMAIN variants = AllStyles =>
        /\ Cardinality({variants[st] : st \in AllStyles}) = 4
        /\ \A st \in AllStyles : variants[st] = CORE_FONTS[ExpectedFamily[fontIn]][st]

\* resolving a style again gives the identifier it gave before
SameAnswerAgain == \A st \in DOMAIN variants : variants'[st] = variants[st]

\* C8: for every font name, get_font_variant over the four combinations of
\* bold and italic returns four distinct identifiers, the normal, bold, italic
\* and bold-italic entries of one CORE_FONTS family (the family the name or its
\* alias maps to, Helvetica when unknown), and a repeated call returns the
\* same identifier.
C8_FourVariantsOfOneFamily == [](FourVariantsOfOneFamily) /\ [][SameAnswerAgain]_vars

\* all four styles of an alias of Times have been resolved
C8_Witness == fontIn = s_georgia /\ DOMAIN variants = AllStyles /\ variants["bold-italic"] = s_tirobi

\* what extract_vertical_align reports for a value
AlignReport ==
    (s_baseline :> "vertical-align: baseline;") @@ (s_super :> "vertical-align: super;")
    @@ (s_sub :> "vertical-align: sub;")

\* C9: reinsert_vertical_align with baseline, super or sub followed by
\* extract_vertical_align reports that same value.
C9_VerticalAlignRoundTrip ==
    (Returned /\ op.name = "reinsert_vertical_align"
     /\ CarriesStr("vertical-align", {s_baseline, s_super, s_sub})) =>
        extract_vertical_align(node) = AlignReport[Value("vertical-align").s]

\* C10: no reinsert handler raises on a malformed style value (unparseable or
\* empty string, zero, negative number, float, null); an unparseable font
\* size becomes 12pt, an unparseable spacing or indent 0, an unparseable
\* weight 400.
C10_MalformedValuesNeverRaise ==
    /\ res = ""
    /\ (op.name = "reinsert_font_size" /\ CarriesStr("font-size", {s_abc})) => node["size"] = 12 * Unit
    /\ (op.name = "reinsert_letter_spacing" /\ CarriesStr("letter-spacing", {s_abc})) => node["char_spacing"] = 0
    /\ (op.name = "reinsert_word_spacing" /\ CarriesStr("word-spacing", {s_abc})) => node["word_spacing"] = 0
    /\ (op.name = "reinsert_text_indent" /\ CarriesStr("text-indent", {s_abc}) /\ "lines" \in DOMAIN node)
           => node["indent"] = 0


(* ------------------------------ OCR word grouping ---------------------- *)
\* the entries that are kept: text left after stripping, confidence >= 30
Kept(w) == Strip(w.text) # <<>> /\ w.conf >= 30 * Unit
KeptWords(words) == SelectSeq(words, Kept)

\* the words of the blocks, one after the other
RECURSIVE WordsOfBlocks(_)
WordsOfBlocks(bs) == IF bs = <<>> THEN <<>> ELSE Split(Head(bs).text) \o WordsOfBlocks(Tail(bs))

\* box a lies inside box b
RectInside(a, b) == a.x0 >= b.x0 /\ a.y0 >= b.y0 /\ a.x1 <= b.x1 /\ a.y1 <= b.y1

\* C11: the words found in the blocks returned by _convert_to_blocks are
\* exactly the entries whose stripped text is not empty and whose confidence
\* is >= 30, each once and in input order; an entry below 30 or blank is in no
\* block, and the box of every kept entry lies in the box of a block.
C11_OnlyConfidentWordsReachTheBlocks ==
    ret.done =>
        /\ WordsOfBlocks(ret.val) = [i \in 1..Len(KeptWords(arg)) |-> Strip(KeptWords(arg)[i].text)]
        /\ \A i \in 1..Len(arg) : Kept(arg[i]) => \E j \in 1..Len(ret.val) : RectInside(WordRect(arg[i]), ret.val[j].bbox)
        /\ (KeptWords(arg) = <<>>) => ret.val = <<>>

\* confidences 29, 30 and 100 on three words: the last two are returned
C11_Witness ==
    /\ ret.done
    /\ Len(arg) = 3
    /\ \A i \in 1..3 : arg[i].text = s_Hi /\ arg[i].block_num = 1
    /\ <<arg[1].conf, arg[2].conf, arg[3].conf>> = <<29 * Unit, 30 * Unit, 100 * Unit>>
    /\ Len(ret.val) = 1
    /\ ret.val[1].text = s_Hi_Hi

\* the maximal runs of consecutive entries with the same engine block index
RECURSIVE RunsOf(_)
RunsOf(words) ==
    IF words = <<>> THEN <<>>
    ELSE LET n == CHOOSE k \in 1..Len(words) :
                      /\ \A i \in 1..k : words[i].block_num = words[1].block_num
                      /\ (k < Len(words) => words[k + 1].block_num # words[1].block_num)
         IN <<SubSeq(words, 1, n)>> \o RunsOf(SubSeq(words, n + 1, Len(words)))

\* the box that holds the boxes of a run, edge by edge
RunBox(run) ==
    LET I == 1..Len(run)
    IN [x0 |-> CHOOSE v \in {run[i].left : i \in I} : \A i \in I : v <= run[i].left,
        y0 |-> CHOOSE v \in {run[i].top : i \in I} : \A i \in I : v <= run[i].top,
        x1 |-> CHOOSE v \in {run[i].left + run[i].width : i \in I} : \A i \in I : v >= run[i].left + run[i].width,
        y1 |-> CHOOSE v \in {run[i].top + run[i].height : i \in I} : \A i \in I : v >= run[i].top + run[i].height]

\* C12: _convert_to_blocks returns one block per maximal run of consecutive
\* kept entries with the same block index, in run order; the text of a block
\* is the run's stripped words joined by single spaces and its box the union
\* of the run's boxes.  A dropped entry inside a run does not split it; an
\* index that comes back after another one starts a new block.
C12_OneBlockPerRun ==
    ret.done =>
        LET runs == RunsOf(KeptWords(arg))
        IN /\ Len(ret.val) = Len(runs)
           /\ \A r \in 1..Len(runs) :
                /\ ret.val[r].text = Join([i \in 1..Len(runs[r]) |-> Strip(runs[r][i].text)], s_sp)
                /\ ret.val[r].bbox.x0 = RunBox(runs[r]).x0
                /\ ret.val[r].bbox.y0 = RunBox(runs[r]).y0
                /\ ret.val[r].bbox.x1 = RunBox(runs[r]).x1
                /\ ret.val[r].bbox.y1 = RunBox(runs[r]).y1

\* block 1 comes back after block 2: three blocks, the second one the stripped
\* word of block 2
C12_Witness ==
    /\ ret.done
    /\ Len(arg) = 3
    /\ arg[1].block_num = 1 /\ arg[2].block_num = 2 /\ arg[3].block_num = 1
    /\ arg[1].text = s_Hi /\ arg[2].text = s_sp_c_sp /\ arg[3].text = s_Hi
    /\ \A i \in 1..3 : arg[i].conf = 30 * Unit
    /\ Len(ret.val) = 3
    /\ ret.val[2].text = s_c


(* ------------------------------ line repair ---------------------------- *)
\* The repair as the specification words it, the line that follows being the
\* one at the next position: the texts of the repaired lines.
RECURSIVE RepairedTexts(_, _, _)
RepairedTexts(texts, pos, current) ==
    IF pos > Len(texts) THEN (IF current # <<>> THEN <<current>> ELSE <<>>)
    ELSE IF EndsWith(texts[pos], s_dash)
    THEN RepairedTexts(texts, pos + 1, current \o SubSeq(texts[pos], 1, Len(texts[pos]) - 1))
    ELSE IF /\ texts[pos][Len(texts[pos])] \notin {".", "!", "?"}
            /\ pos < Len(texts)
            /\ texts[pos + 1][1] \in Lowers
    THEN RepairedTexts(texts, pos + 1, current \o texts[pos] \o s_sp)
    ELSE <<current \o texts[pos]>> \o RepairedTexts(texts, pos + 1, <<>>)

TextsOf(lines) == [i \in 1..Len(lines) |-> lines[i]["text"]]

\* C16: fix_line_breaks joins a line ending in a hyphen to the line after it
\* without the hyphen, joins with one space a line that does not end in
\* '.', '!' or '?' to the line at the next position when that one starts with
\* a lowercase letter (also when several lines are equal), and finalizes every
\* other line unchanged; ['exam-', 'ple text.'] becomes ['example text.'].
C16_LinesAreRepairedByPosition ==
    (ret.done /\ (arg[1]["lines"] = <<>> \/ ~EndsWith(arg[1]["lines"][Len(arg[1]["lines"])]["text"], s_dash))) =>
        /\ ret.val.exc = ""
        /\ TextsOf(ret.val.node[1]["lines"]) = RepairedTexts(TextsOf(arg[1]["lines"]), 1, <<>>)

\* the hyphenated word of the specification's example is repaired
C16_Example ==
    /\ ret.done
    /\ TextsOf(arg[1]["lines"]) = <<s_exam_, s_ple_text>>
    /\ TextsOf(ret.val.node[1]["lines"]) = <<s_example_text>>


(* ------------------------------ OCR of a document ---------------------- *)
StageOrder ==
    <<"Preprocess", "Recognize", "Filter", "GroupIntoBlocks", "Clean", "RepairLines", "MergeSimilar", "Insert">>

StagesOf(e) == {e.stages[i] : i \in 1..Len(e.stages)}

\* the engine returns at least one word that is kept for the image
HasRecognisedText(im) == im.prepare /\ im.engine /\ KeptWords(im.words) # <<>>

PagesWorkedOn == {ocr.log[i].page : i \in 1..Len(ocr.log)} \cup {ocr.inserted[i].page : i \in 1..Len(ocr.inserted)}

\* C15: process_pdf runs the image pipeline, and so inserts text, only on a
\* page whose text is empty after stripping and from which at least one image
\* was extracted: a page that has text is never worked on.  needs_ocr returns
\* True exactly when some page has no text and at least one embedded image.
C15_OnlyTextlessPagesWithImages ==
    /\ \A p \in PagesWorkedOn : Strip(doc[p].text) = <<>> /\ \E i \in 1..Len(doc[p].images) : doc[p].images[i].extract
    /\ ret.done => (ret.val <=> \E p \in 1..Len(doc) : Strip(doc[p].text) = <<>> /\ doc[p].images # <<>>)

\* a page with text and an image, then a scanned page: OCR is needed, the
\* run is over and only the second page was worked on
C15_Witness ==
    /\ ocr.pc = "done"
    /\ ret.done /\ ret.val
    /\ Len(doc) = 2
    /\ doc[1].text = s_Hi /\ doc[1].images # <<>>
    /\ PagesWorkedOn = {2}


(* ------------------------------ merging of blocks ---------------------- *)
\* the two blocks agree in font family, font size and alignment, and their
\* texts are similar enough
SameLook(a, b) == a["font"] = b["font"] /\ a["size"] = b["size"] /\ a["align"] = b["align"]

\* the merge as the specification words it: a block is merged into the
\* accumulated one exactly when the two look the same and read alike, and its
\* lines are then appended
RECURSIVE MergedAsSpecified(_, _)
MergedAsSpecified(blocks, current) ==
    IF blocks = <<>> THEN current
    ELSE IF current = <<>> THEN MergedAsSpecified(Tail(blocks), <<Head(blocks)>>)
    ELSE IF SameLook(current[1], Head(blocks)) /\ SimilarTexts(current[1]["text"], Head(blocks)["text"])
    THEN MergedAsSpecified(Tail(blocks), <<[current[1] EXCEPT !["lines"] = @ \o Head(blocks)["lines"]]>>)
    ELSE current \o MergedAsSpecified(Tail(blocks), <<Head(blocks)>>)

\* C17: merge_similar_blocks merges a block into the accumulated block before
\* it if and only if font-family, font-size and text-align are equal and the
\* similarity of the two texts is >= 0.85; blocks of different font or size are
\* never merged, and a merge appends the lines of the second block.
C17_MergeNeedsSameLookAndText ==
    ret.done => (ret.val.exc = "" /\ ret.val.node = MergedAsSpecified(arg, <<>>))

\* 'Hello world' and 'Goodbye' with the same properties stay two blocks
C17_Example ==
    /\ ret.done
    /\ Len(arg) = 2
    /\ SameLook(arg[1], arg[2])
    /\ arg[1]["text"] = s_Hello_world /\ arg[2]["text"] = s_Goodbye
    /\ Len(ret.val.node) = 2


\* every span of the line has a box and a text, and the box is as wide as
\* the text measures
MeasuredSpans(line) ==
    /\ "spans" \in DOMAIN line
    /\ \A j \in 1..Len(line["spans"]) :
          /\ "bbox" \in DOMAIN line["spans"][j] /\ "text" \in DOMAIN line["spans"][j]
          /\ line["spans"][j]["bbox"].width = get_text_width(line["spans"][j]["text"])

\* line i of the block before the call is wider than the block and measured
OverflowsMeasured(i) ==
    /\ "bbox" \in DOMAIN prev["lines"][i]
    /\ prev["lines"][i]["bbox"].width > prev["bbox"].width
    /\ MeasuredSpans(prev["lines"][i])

EndsWithDots(text) == Len(text) >= 3 /\ SubSeq(text, Len(text) - 2, Len(text)) = s_dots

\* the spans that remain fit the block and the last of them ends with '...'
EllipsisShown(spans, max_width) ==
    /\ SumWidths(spans) <= max_width
    /\ spans # <<>> => EndsWithDots(spans[Len(spans)]["text"])

EllipsisCall ==
    /\ op.name = "reinsert_text_overflow" /\ Returned
    /\ CarriesStr("text-overflow", {s_ellipsis})
    /\ "lines" \in DOMAIN prev /\ "bbox" \in DOMAIN prev

\* C18: after reinsert_text_overflow with text-overflow = ellipsis, every
\* line that was wider than the block, its spans as wide as their texts
\* measure, keeps spans of total width <= the block width, and the last
\* span that remains ends with '...'
C18_EllipsisFitsAndShows ==
    EllipsisCall =>
        \A i \in 1..Len(prev["lines"]) :
            OverflowsMeasured(i) => EllipsisShown(node["lines"][i]["spans"], prev["bbox"].width)

\* the call on the block of two measured overlong lines
C18_Example ==
    /\ EllipsisCall
    /\ \E i \in 1..Len(prev["lines"]) : OverflowsMeasured(i)


\* the lines of the block handed to extract_text_align that have a box
BoxedLines == {i \in 1..Len(arg["lines"]) : "bbox" \in DOMAIN arg["lines"][i]}
LeftsOf == {arg["lines"][i]["bbox"].x0 : i \in BoxedLines}
RightsOf == {arg["lines"][i]["bbox"].x1 : i \in BoxedLines}
\* twice the midpoints of the boxed lines
MidpointsOf == {arg["lines"][i]["bbox"].x0 + arg["lines"][i]["bbox"].x1 : i \in BoxedLines}

\* max - min of the set is below the limit
SpreadBelow(S, limit) == \A a, b \in S : a - b < limit

Reports(value) == ret.val = s_text_align_ \o value \o s_semi

DetectedAs ==
    IF SpreadBelow(LeftsOf, Unit) /\ SpreadBelow(RightsOf, Unit) THEN s_justify
    ELSE IF SpreadBelow(LeftsOf, Unit) THEN s_left
    ELSE IF SpreadBelow(RightsOf, Unit) THEN s_right
    ELSE IF SpreadBelow(MidpointsOf, 2 * Unit) THEN s_center
    ELSE s_left

\* C19: extract_text_align reports the explicit align of a block that has
\* one; otherwise, from the lines that have a box, justify when the left and
\* the right edges each spread by less than 1, left when only the left edges
\* do, right when only the right edges do, center when neither does but the
\* midpoints spread by less than 1, and left in every other case
C19_AlignmentIsDetectedFromEdges ==
    ret.done =>
        /\ "align" \in DOMAIN arg => Reports(arg["align"])
        /\ ("align" \notin DOMAIN arg /\ "lines" \in DOMAIN arg /\ BoxedLines # {}) => Reports(DetectedAs)

\* left edges [10, 10, 10] with right edges [100, 150, 120] are reported left
C19_Witness ==
    /\ ret.done
    /\ "align" \notin DOMAIN arg /\ "lines" \in DOMAIN arg /\ Len(arg["lines"]) = 3
    /\ \A i \in 1..3 : "bbox" \in DOMAIN arg["lines"][i] /\ arg["lines"][i]["bbox"].x0 = 10 * Unit
    /\ <<arg["lines"][1]["bbox"].x1, arg["lines"][2]["bbox"].x1, arg["lines"][3]["bbox"].x1>>
           = <<100 * Unit, 150 * Unit, 120 * Unit>>
    /\ Reports(s_left)


\* the points the fixed ratios give for the number value with the suffix,
\* as a hundredfold so that 0.75 and 0.12 stay whole
RatioTimes100(suffix) ==
    IF suffix = s_px THEN 75
    ELSE IF suffix \in {s_em, s_rem} THEN 1200
    ELSE IF suffix = s_pct THEN 12
    ELSE 100

\* points is value * ratio, to within one step of the fixed-point grid
ConvertedBy(points, value, suffix) ==
    /\ 100 * points - value * RatioTimes100(suffix) < 100
    /\ value * RatioTimes100(suffix) - 100 * points < 100

\* C20: the normalize function of letter-spacing, word-spacing, text-indent,
\* font-size and line-height maps 'N<unit>' to points by pt -> N, no unit
\* -> N, px -> 0.75 N, em and rem -> 12 N, % -> 0.12 N, and every property
\* gives the same string the same point value
C20_LengthsConvertAlike ==
    \A d \in Decimals, u \in UnitSuffixes :
        arg = d.s \o u =>
            /\ \A p \in DOMAIN ret.val : ConvertedBy(ret.val[p], d.v, u)
            /\ \A p, q \in DOMAIN ret.val : ret.val[p] = ret.val[q]

\* '1.5em' has been normalised for line-height and for font-size
C20_Example ==
    /\ arg = s_1_5 \o s_em
    /\ {"line-height", "font-size"} \subseteq DOMAIN ret.val


\* the last call wrote the geometry of the style it was given
StyleGiven == Value("text-decoration-style").s
DashedWritten ==
    /\ op.name = "reinsert_dashed_underline" /\ Returned
    /\ CarriesStr("text-decoration-style", {s_dashed, s_dotted, s_wavy})
    /\ "size" \in DOMAIN prev
DoubleWritten ==
    /\ op.name = "reinsert_double_underline" /\ Returned
    /\ CarriesStr("text-decoration-style", {s_double})
    /\ "size" \in DOMAIN prev /\ "text" \in DOMAIN prev
SolidWritten ==
    /\ op.name = "reinsert_underline" /\ Returned
    /\ CarriesStr("text-decoration", {s_underline})
    /\ "size" \in DOMAIN prev

\* the span's geometry is the one calculate_dash_pattern gives
DashGeometryAgrees(span, metrics, style) ==
    /\ span["underline_thickness"] = metrics["thickness"]
    /\ span["underline_position"] = metrics["offset"]
    /\ style = s_dashed => span["dash_pattern"] = <<metrics["dash_length"], metrics["gap_length"]>>
    /\ style = s_dotted => span["dash_pattern"] = <<metrics["dot_diameter"], metrics["gap_length"]>>
    /\ style = s_wavy => /\ span["wave_amplitude"] = metrics["wave_amplitude"]
                         /\ span["wave_length"] = metrics["wave_length"]

\* C21: the thickness, position, dash and gap lengths and wave amplitude
\* and length that reinsert_dashed_underline writes equal what
\* calculate_dash_pattern returns for the same size and style; likewise
\* reinsert_underline agrees with calculate_underline_metrics and
\* reinsert_double_underline with calculate_double_underline_metrics
C21_GeometryIsOneFunctionOfSize ==
    /\ DashedWritten => DashGeometryAgrees(node, calculate_dash_pattern(prev["size"], StyleGiven), StyleGiven)
    /\ SolidWritten =>
          /\ node["underline_thickness"] = calculate_underline_metrics(prev["size"], s_solid)["thickness"]
          /\ node["underline_position"] = calculate_underline_metrics(prev["size"], s_solid)["position"]
    /\ DoubleWritten =>
          /\ node["underline_thickness"] = calculate_double_underline_metrics(prev["size"]).line_thickness
          /\ node["underline_positions"][1] = -calculate_double_underline_metrics(prev["size"]).offset_from_baseline

\* a dotted underline has been written into a span set in 12pt
C21_Example ==
    /\ DashedWritten
    /\ StyleGiven = s_dotted
    /\ prev["size"] = 12 * Unit


\* the style the last call of the underline family gave the span, "" when
\* the call gave none (key absent, or a plain underline)
LastUnderlineStyle ==
    IF op.name \in {"reinsert_dashed_underline", "reinsert_double_underline"} /\ Carries("text-decoration-style")
    THEN StyleGiven
    ELSE IF op.name = "reinsert_underline" /\ Carries("text-decoration") /\ Len(Split(Value("text-decoration").s)) > 1
    THEN Split(Value("text-decoration").s)[2]
    ELSE s_empty

\* what the two extract functions report for the span
ReportedStyles ==
    (IF extract_double_underline(node) # "" THEN {extract_double_underline(node)} ELSE {})
    \cup (IF extract_dashed_underline(node) # "" THEN {extract_dashed_underline(node)} ELSE {})

StyleReport(style) ==
    IF style = s_double THEN "text-decoration-style: double;"
    ELSE IF style = s_dashed THEN "text-decoration-style: dashed;"
    ELSE IF style = s_dotted THEN "text-decoration-style: dotted;"
    ELSE "text-decoration-style: wavy;"

\* C26: after any sequence of reinsert_underline, reinsert_dashed_underline
\* and reinsert_double_underline calls on one span, at most one of
\* extract_double_underline and extract_dashed_underline reports a style,
\* and it is the style the most recent call gave
C26_OneUnderlineStyle ==
    /\ ~(extract_double_underline(node) # "" /\ extract_dashed_underline(node) # "")
    /\ (Returned /\ LastUnderlineStyle # s_empty) => ReportedStyles = {StyleReport(LastUnderlineStyle)}

\* a double underline followed by a dashed one
C26_Example ==
    /\ prevOp.name = "reinsert_double_underline" /\ "text-decoration-style" \in DOMAIN prevOp.sd
    /\ op.name = "reinsert_dashed_underline" /\ CarriesStr("text-decoration-style", {s_dashed})
    /\ Returned


\* the histogram's mass lies at the two intensities a < b and nowhere else
TwoPeaks(a, b) ==
    /\ a < b /\ arg[a] > 0 /\ arg[b] > 0
    /\ \A i \in 0..(Levels - 1) : i \notin {a, b} => arg[i] = 0

\* C22 as stated: for a histogram whose mass lies at two intensities a < b,
\* get_adaptive_threshold returns t with a < t < b
C22_ThresholdStrictlyBetween ==
    ret.done => \A a, b \in PeakLevels : TwoPeaks(a, b) => (a < ret.val /\ ret.val < b)

\* C22: for a histogram whose mass lies at two intensities a < b,
\* get_adaptive_threshold returns the lower peak a itself, so a <= t < b
C22_ThresholdIsTheLowerPeak ==
    ret.done => \A a, b \in PeakLevels : TwoPeaks(a, b) => ret.val = a

\* the threshold of a histogram with peaks at 100 and 200 has been computed
C22_Witness ==
    /\ ret.done
    /\ TwoPeaks(100, 200)
    /\ arg[100] # arg[200]


\* every line of the block has a box and a first span with a size
SizedLines(block) ==
    /\ "lines" \in DOMAIN block /\ Len(block["lines"]) >= 2
    /\ \A i \in 1..Len(block["lines"]) :
          /\ "bbox" \in DOMAIN block["lines"][i]
          /\ "spans" \in DOMAIN block["lines"][i] /\ block["lines"][i]["spans"] # <<>>
          /\ "size" \in DOMAIN block["lines"][i]["spans"][1]

\* the last call set a line height on such a block, given as a number
LineHeightSet ==
    /\ op.name = "reinsert_line_height" /\ Returned
    /\ Carries("line-height") /\ Value("line-height").t = "float"
    /\ SizedLines(prev)

\* C23: for a block with at least two lines, each with a box and a first
\* span with a size, reinsert_line_height with line-height = h followed by
\* extract_line_height on the resulting block reports the multiplier h
C23_LineHeightRoundTrip ==
    LineHeightSet =>
        extract_line_height(node) =
            [val |-> s_line_height_ \o FormatHundredths((100 * Value("line-height").n) \div Unit) \o s_semi, exc |-> ""]

\* a line height of 1.5 has been set on a block of two sized lines
C23_Example ==
    /\ LineHeightSet
    /\ Value("line-height").n = (3 * Unit) \div 2
    /\ extract_line_height(node).val # s_empty


ModeGiven == Value("writing-mode").s
ModeSet ==
    /\ op.name = "reinsert_text_direction" /\ Returned
    /\ CarriesStr("writing-mode", {s_horizontal_tb, s_vertical_rl, s_vertical_lr})

ModeReport(mode) ==
    IF mode = s_vertical_rl THEN "writing-mode: vertical-rl;"
    ELSE IF mode = s_vertical_lr THEN "writing-mode: vertical-lr;"
    ELSE "writing-mode: horizontal-tb;"

\* C24: for every span and every mode m in horizontal-tb, vertical-rl,
\* vertical-lr, reinsert_text_direction with writing-mode = m followed by
\* extract_text_direction reports writing-mode m with direction ltr
C24_WritingModeRoundTrip ==
    ModeSet => extract_text_direction(node) = [val |-> <<"direction: ltr;", ModeReport(ModeGiven)>>, exc |-> ""]

\* vertical-lr has been set on a span
C24_Example ==
    /\ ModeSet
    /\ ModeGiven = s_vertical_lr

\* the last call transformed the text of a span that had one
TextTransformed ==
    /\ op.name = "reinsert_text_transform" /\ Returned
    /\ Carries("text-transform") /\ "text" \in DOMAIN prev

\* C25: after reinsert_text_transform on a span that has text,
\* extract_text_direction returns without error what it returned before the
\* call, and reinsert_text_direction leaves what text-transform handling
\* stored in the span
C25_TransformAndDirectionDoNotCollide ==
    /\ (TextTransformed /\ extract_text_direction(prev).exc = "") =>
           extract_text_direction(node) = extract_text_direction(prev)
    /\ (ModeSet /\ prevOp.name = "reinsert_text_transform" /\ "text-transform" \in DOMAIN prevOp.sd
            /\ "transform" \in DOMAIN prev /\ prev["transform"].t = "str") =>
           node["transform"] = prev["transform"]

\* uppercase has been applied to a span with text whose direction could be read
C25_Example ==
    /\ TextTransformed
    /\ Value("text-transform").s = s_uppercase
    /\ extract_text_direction(prev).exc = ""


(* --------------------------- editing sessions -------------------------- *)
\* no request is being handled
Quiet == \A t \in DOMAIN calls : Free(t)

\* request t was an update_session call that returned False
UpdateFailed(t) == calls[t].req = "apply_style" /\ calls[t].pc = "done" /\ calls[t].out = "False"

\* the session request t named has the change list and the last_modified it
\* had when update_session was entered
AsEntered(t, session_id) ==
    /\ sessions[session_id].changes = calls[t].entry[session_id].changes
    /\ sessions[session_id].last_modified = calls[t].entry[session_id].last_modified

\* C27: when update_session has returned False, the session's change list
\* and last_modified are what they were before the call; and between requests
\* the change list of a session is the list of changes saved in its working
\* file
C27_FailedUpdateLeavesSessionUnchanged ==
    /\ \A t \in DOMAIN calls :
         (UpdateFailed(t) /\ calls[t].session_id \in DOMAIN sessions) => AsEntered(t, calls[t].session_id)
    /\ Quiet => \A s \in DOMAIN sessions :
                  sessions[s].path \in DOMAIN files => sessions[s].changes = files[sessions[s].path].edits

\* update_session has returned False for a session that exists
C27_Example ==
    \E t \in DOMAIN calls : UpdateFailed(t) /\ calls[t].session_id \in DOMAIN sessions


\* request t was a revert of a session that existed, and it has been answered
Reverted(t) == calls[t].req = "revert" /\ calls[t].pc = "done" /\ calls[t].out # "404"

\* get_session(session_id) gives a session whose working file exists
Usable(session_id) == session_id \in DOMAIN sessions /\ sessions[session_id].path \in DOMAIN files

\* C28: a revert of an existing session either answers with a new session
\* id that resolves to a session with its working file, or fails and leaves
\* the old session with its working file
C28_RevertIsAllOrNothing ==
    \A t \in DOMAIN calls :
        Reverted(t) => IF calls[t].out = "200" THEN Usable(calls[t].created) ELSE Usable(calls[t].session_id)

\* a revert of an existing session has failed
C28_Example == \E t \in DOMAIN calls : Reverted(t) /\ calls[t].out = "500"


\* request t is an upload that was answered with a session id
Uploaded(t) == calls[t].req = "upload" /\ calls[t].pc = "done" /\ calls[t].out = "200"

\* request t is an upload for which needs_ocr was true, about to run
\* process_pdf on the uploaded file
OcrStarts(t) == calls[t].req = "upload" /\ calls[t].pc = "process_pdf"

\* process_pdf has inserted a text into the uploaded file
OcrInserted == UploadPath \in DOMAIN files /\ files[UploadPath].inserted # <<>>

UpdateSucceeded(t) == calls[t].req = "apply_style" /\ calls[t].pc = "done" /\ calls[t].out = "True"

\* how often change x occurs in a list of changes
Occurrences(changes, x) == Cardinality({i \in DOMAIN changes : changes[i] = x})

\* a list of changes holds the changes of both requests
HoldsBoth(changes, t1, t2) ==
    \A x \in {calls[t1].changes[i] : i \in DOMAIN calls[t1].changes}
             \cup {calls[t2].changes[i] : i \in DOMAIN calls[t2].changes} :
        Occurrences(changes, x) >= Occurrences(calls[t1].changes, x) + Occurrences(calls[t2].changes, x)

\* C30: when two update_session calls for one session have both returned
\* True, the saved working file and the session's change list hold the
\* changes of both calls
C30_ConcurrentEditsAreBothKept ==
    \A t1, t2 \in DOMAIN calls :
        (t1 # t2 /\ UpdateSucceeded(t1) /\ UpdateSucceeded(t2)
            /\ calls[t1].session_id = calls[t2].session_id /\ Usable(calls[t1].session_id)) =>
           /\ HoldsBoth(files[sessions[calls[t1].session_id].path].edits, t1, t2)
           /\ HoldsBoth(sessions[calls[t1].session_id].changes, t1, t2)

\* two update_session calls hold the same session's document open at the
\* same time
C30_Example ==
    \E t1, t2 \in DOMAIN calls :
        /\ t1 # t2
        /\ calls[t1].pc = "apply" /\ calls[t2].pc = "apply"
        /\ calls[t1].session_id = calls[t2].session_id

====
